---- MODULE Spec2Model ----
(***************************************************************************)
(* State-machine model of the valeria MCP gateway: the Express pipeline    *)
(* (auth middleware, rate-limit middleware, /mcp router), the TTL cache    *)
(* and the calendar tool's idempotent create.                              *)
(*                                                                         *)
(* Strings that the code parses (the Authorization header, the API key)    *)
(* are sequences of one-character strings, so that startsWith, slice,      *)
(* replace and trim are computed as the code computes them.  Time is the   *)
(* value of Date.now() in milliseconds.  The Google service-account        *)
(* credentials are taken to be configured (getAuthClient does not throw).  *)
(***************************************************************************)
EXTENDS Integers, Sequences, FiniteSets, TLC

\* ------------------------------------------------------------------ bounds
MaxReq == 4
MaxConc == 2
MaxGate == 3

\* ------------------------------------------------------- program constants
windowMs == 60000
windowSec == 60
IdemTtlSec == 86400
DefaultTtlSec == 120
DEFAULT_DURATION_MIN == 30

Reqs == 1 .. MaxReq

\* ----------------------------------------------------------------- strings
Empty == <<>>
BearerWord == <<"B", "e", "a", "r", "e", "r">>
NullTok == <<"null">>
Anon == <<"a", "n", "o", "n">>
Secret == <<"k", "1">>
Wrong == <<"k", "2">>
Short == <<"k">>

IsSpace(c) == c = " "

LowerChar(c) ==
  CASE c = "B" -> "b"
    [] c = "E" -> "e"
    [] c = "A" -> "a"
    [] c = "R" -> "r"
    [] OTHER -> c

Lower(s) == [i \in 1 .. Len(s) |-> LowerChar(s[i])]

startsWith(s, p) == Len(s) >= Len(p) /\ SubSeq(s, 1, Len(p)) = p

slice(s, n) == SubSeq(s, n + 1, Len(s))

RECURSIVE TrimStart(_)
TrimStart(s) == IF s # Empty /\ IsSpace(Head(s)) THEN TrimStart(Tail(s)) ELSE s

RECURSIVE TrimEnd(_)
TrimEnd(s) ==
  IF s # Empty /\ IsSpace(s[Len(s)]) THEN TrimEnd(SubSeq(s, 1, Len(s) - 1)) ELSE s

trim(s) == TrimEnd(TrimStart(s))

\* s.replace(/^Bearer\s+/, '') and, with ci, s.replace(/^Bearer\s+/i, '')
replaceBearer(s, ci) ==
  LET word == SubSeq(s, 1, 6)
      hit == /\ Len(s) >= 7
             /\ IF ci THEN Lower(word) = Lower(BearerWord) ELSE word = BearerWord
             /\ IsSpace(s[7])
  IN IF hit THEN TrimStart(slice(s, 6)) ELSE s

\* a || b on strings: the empty string is falsy
OrElse(a, b) == IF a # Empty THEN a ELSE b

\* ------------------------------------------------------------------- types
Bearer(tok) == BearerWord \o <<" ">> \o tok
bearerLc(tok) == Lower(BearerWord) \o <<" ">> \o tok

NoWhen == [present |-> FALSE, valid |-> FALSE, ms |-> 0]
BadWhen == [present |-> TRUE, valid |-> FALSE, ms |-> 0]
WhenAt(t) == [present |-> TRUE, valid |-> TRUE, ms |-> t]

NoParams ==
  [when |-> NoWhen, who |-> "", notes |-> "", duration |-> 0, hasDuration |-> FALSE,
   barber |-> "", calendarId |-> "", client_request_id |-> "",
   from |-> NoWhen, to |-> NoWhen, buffer |-> 0]

NoData ==
  [id |-> 0, when |-> 0, start |-> 0, end |-> 0, who |-> "", notes |-> "", slots |-> <<>>]

NoResp ==
  [http |-> 0, status |-> "", error |-> "", message |-> "", data |-> NoData, stage |-> "",
   fromCache |-> FALSE]

NoFx ==
  [handler |-> FALSE, gets |-> 0, sets |-> 0, inserts |-> 0, miss |-> FALSE, lists |-> 0]

VARIABLES
  cfg,          \* process.env: [apiKey, ratePerMin]
  now,          \* Date.now(), ms
  buckets,      \* middleware rateLimit: key -> [count, resetAt]
  rateWindows,  \* router rateAllow: key -> [windowStart, count]
  store,        \* TTLCache.store: key -> [value, exp]
  req,          \* the calls: inputs, position, response, what each did and saw
  events,       \* the remote calendar: the events inserted, with the token of the call
  inserts,      \* every calendar.events.insert invoked: [r, cid]
  pure          \* a function of the code applied on its own: its arguments and results

vars == <<cfg, now, buckets, rateWindows, store, req, events, inserts, pure>>

NoPure == [fn |-> ""]


\* -------------------------------------------------------------------- maps
EmptyMap == [k \in {} |-> 0]

Put(f, k, v) == [x \in DOMAIN f \cup {k} |-> IF x = k THEN v ELSE f[x]]

Remove(f, k) == [x \in DOMAIN f \ {k} |-> f[x]]

\* --------------------------------------------------------------- TTL cache
\* TTLCache.set(key, value, ttlMs) at time t; hasTtl is FALSE for ttlMs undefined
TTLCache_set(st, key, value, ttlMs, hasTtl, t) ==
  LET exp == t + (IF hasTtl THEN ttlMs ELSE DefaultTtlSec * 1000)
  IN Put(st, key, [value |-> value, exp |-> exp])

\* TTLCache.get that treats the instant of expiry as already expired
TTLCache_get_ExpiredAtExp(st, key, t) ==
  IF key \notin DOMAIN st THEN [hit |-> FALSE, value |-> NoData, store |-> st]
  ELSE IF t >= st[key].exp THEN [hit |-> FALSE, value |-> NoData, store |-> Remove(st, key)]
  ELSE [hit |-> TRUE, value |-> st[key].value, store |-> st]

\* TTLCache.get(key) at time t: the value read and the store it leaves
TTLCache_get(st, key, t) ==
  IF key \notin DOMAIN st THEN [hit |-> FALSE, value |-> NoData, store |-> st]
  ELSE IF t > st[key].exp THEN [hit |-> FALSE, value |-> NoData, store |-> Remove(st, key)]
  ELSE [hit |-> TRUE, value |-> st[key].value, store |-> st]

\* the singleton adapter: set takes the ttl in seconds
cache_set(st, key, value, ttlSeconds, t) ==
  TTLCache_set(st, key, value, ttlSeconds * 1000, TRUE, t)

cache_get(st, key, t) == TTLCache_get(st, key, t)

\* the singleton adapter's set with no ttl (or one that is no finite number)
cache_setDefault(st, key, value, t) == TTLCache_set(st, key, value, 0, FALSE, t)

cache_del(st, key) == Remove(st, key)

cache_clear(st) == EmptyMap

\* ------------------------------------------------------------- middleware
\* auth(req, res, next): 0 stands for next(), otherwise the HTTP status sent
auth(h) ==
  LET authHeader == OrElse(h.authorization, Empty)
      token == IF startsWith(authHeader, BearerWord \o <<" ">>)
               THEN slice(authHeader, 7) ELSE NullTok
  IN IF cfg.apiKey = Empty THEN 500
     ELSE IF token # cfg.apiKey THEN 401
     ELSE 0

rateLimitKey(h, ip) ==
  <<trim(replaceBearer(OrElse(h.authorization, Empty), FALSE)),
    IF ip # "" THEN ip ELSE "local">>

\* rateLimit(req, res, next): the buckets it leaves and whether next() is called
rateLimit(bk, h, ip, t) ==
  LET perMinute == cfg.ratePerMin
      key == rateLimitKey(h, ip)
      fresh == key \notin DOMAIN bk \/ t > bk[key].resetAt
      b0 == IF fresh THEN [count |-> 0, resetAt |-> t + windowMs] ELSE bk[key]
      b == [b0 EXCEPT !.count = @ + 1]
  IN [buckets |-> Put(bk, key, b), pass |-> ~(b.count > perMinute)]

\* ------------------------------------------------------------------ router
timingSafeCompare(a, b) ==
  IF Len(a) # Len(b) THEN FALSE ELSE \A i \in 1 .. Len(a) : a[i] = b[i]

incomingApiKey(h) ==
  OrElse(h.xkey, OrElse(replaceBearer(OrElse(h.authorization, Empty), TRUE), Empty))

authorized(h) ==
  IF cfg.apiKey # Empty THEN timingSafeCompare(cfg.apiKey, incomingApiKey(h)) ELSE TRUE

\* a faulty rateAllow that tests the count with > : it lets one call too many in
rateAllow_OneTooMany(rw, apiKey, t) ==
  IF cfg.ratePerMin <= 0 THEN [rateWindows |-> rw, allow |-> TRUE]
  ELSE
    LET nowSec == t \div 1000
        w == IF apiKey \in DOMAIN rw THEN rw[apiKey] ELSE [windowStart |-> nowSec, count |-> 0]
    IN IF nowSec - w.windowStart >= windowSec
       THEN [rateWindows |-> Put(rw, apiKey, [windowStart |-> nowSec, count |-> 1]),
             allow |-> TRUE]
       ELSE IF w.count > cfg.ratePerMin THEN [rateWindows |-> rw, allow |-> FALSE]
       ELSE [rateWindows |-> Put(rw, apiKey, [w EXCEPT !.count = @ + 1]), allow |-> TRUE]

\* rateAllow(apiKey): the windows it leaves and its answer
rateAllow(rw, apiKey, t) ==
  IF cfg.ratePerMin <= 0 THEN [rateWindows |-> rw, allow |-> TRUE]
  ELSE
    LET nowSec == t \div 1000
        w == IF apiKey \in DOMAIN rw THEN rw[apiKey] ELSE [windowStart |-> nowSec, count |-> 0]
    IN IF nowSec - w.windowStart >= windowSec
       THEN [rateWindows |-> Put(rw, apiKey, [windowStart |-> nowSec, count |-> 1]),
             allow |-> TRUE]
       ELSE IF w.count >= cfg.ratePerMin THEN [rateWindows |-> rw, allow |-> FALSE]
       ELSE [rateWindows |-> Put(rw, apiKey, [w EXCEPT !.count = @ + 1]), allow |-> TRUE]

\* the registry's own entries, each with the keys of its exported actions object
registry == [calendar |-> {"create", "cancel", "check"}]

\* registry and mod.actions are plain objects: a key they do not own is looked
\* up in Object.prototype, where these names are functions
ObjectPrototype == {"constructor", "toString"}

\* properties of the function objects so found that are functions themselves,
\* and work when called without a receiver (Object.keys) or throw (call)
FunctionStatics == [constructor |-> {"keys"}, toString |-> {}]
FunctionPrototype == {"call"}

\* registry[tool]
lookupTool(tool) ==
  IF tool \in DOMAIN registry THEN "module"
  ELSE IF tool \in ObjectPrototype THEN "function"
  ELSE "undefined"

\* the handler built from mod.actions[action] or mod[action], by what calling
\* it does: a tool action, a built-in that returns, a built-in that throws,
\* or null when neither lookup yields a function
lookupHandler(tool, action) ==
  IF lookupTool(tool) = "module"
    THEN IF action \in registry[tool] THEN "action"
         ELSE IF action \in ObjectPrototype THEN "returns"
         ELSE "null"
  ELSE IF lookupTool(tool) = "function"
    THEN IF action \in FunctionStatics[tool] THEN "returns"
         ELSE IF action \in FunctionPrototype THEN "throws"
         ELSE "null"
  ELSE "null"

hasTool(tool) == lookupTool(tool) # "undefined"

hasAction(tool, action) == lookupHandler(tool, action) # "null"

\* ---------------------------------------------------------- calendar tool
\* data/barbers.json as loadBarbersMap returns it
barbersMap == [carlos |-> "calA", luis |-> "calB"]

Ok(v) == [err |-> "", message |-> "", val |-> v]
Err(code, msg) == [err |-> code, message |-> msg, val |-> ""]
Failed(x) == x.message # ""

resolveCalendarId(p) ==
  IF p.calendarId # "" THEN Ok(p.calendarId)
  ELSE IF p.barber # ""
    THEN IF p.barber \in DOMAIN barbersMap
         THEN Ok(barbersMap[p.barber])
         ELSE Err("BARBER_NOT_FOUND", "BARBER_NOT_FOUND")
    ELSE Err("MISSING_CALENDAR", "MISSING_CALENDAR")

\* ensureFuture that lets a start equal to now through
ensureFuture_AllowsNow(when, t) ==
  IF ~when.valid THEN Err("INVALID_WHEN", "INVALID_WHEN")
  ELSE IF when.ms < t THEN Err("IN_PAST", "IN_PAST")
  ELSE Ok("")

\* ensureFuture(whenISO) at time t
ensureFuture(when, t) ==
  IF ~when.valid THEN Err("INVALID_WHEN", "INVALID_WHEN")
  ELSE IF when.ms <= t THEN Err("IN_PAST", "IN_PAST")
  ELSE Ok("")

idemKey(cid) == <<"calendar:create", cid>>

\* createEvent up to its try block: the error thrown, or the event to insert
createPlan(p, t) ==
  LET cal == resolveCalendarId(p)
      fut == ensureFuture(p.when, t)
      durMin == IF p.hasDuration THEN p.duration ELSE DEFAULT_DURATION_MIN
  IN IF ~p.when.present THEN Err("", "Missing param: when")
     ELSE IF p.who = "" THEN Err("", "Missing param: who")
     ELSE IF Failed(cal) THEN cal
     ELSE IF Failed(fut) THEN fut
     ELSE [err |-> "", message |-> "", val |-> cal.val,
           start |-> p.when.ms, end |-> p.when.ms + durMin * 60000,
           who |-> p.who, notes |-> p.notes]

\* cancelEvent before its try block: the error thrown, or the calendar
cancelPlan(p) ==
  IF p.eventId = "" THEN Err("", "Missing param: eventId")
  ELSE resolveCalendarId(p)

\* the object exec() returns for the inserted event ev
execResult(plan, ev) ==
  [id |-> ev.id, when |-> plan.start, start |-> ev.start, end |-> ev.end,
   who |-> plan.who, notes |-> plan.notes, slots |-> <<>>]

\* the router's catch block: err.code to HTTP status
httpOf(code) ==
  IF code \in {"EVENT_NOT_FOUND", "BARBER_NOT_FOUND", "MISSING_CALENDAR"} THEN 404
  ELSE IF code \in {"INVALID_WHEN", "IN_PAST", "GOOGLE_403_FORBIDDEN"} THEN 400
  ELSE 500

ErrResp(http, code, msg, stage) ==
  [http |-> http, status |-> "error", error |-> code, message |-> msg,
   data |-> NoData, stage |-> stage, fromCache |-> FALSE]

OkResp(data, stage) ==
  [http |-> 200, status |-> "ok", error |-> "", message |-> "OK",
   data |-> data, stage |-> stage, fromCache |-> FALSE]

\* ----------------------------------------------------- availability engine
\* a DateTime is its instant in ms; the zone is a fixed offset, taken as zero
MinuteMs == 60000
DayMs == 86400000

Iv(a, b) == [start |-> a, end |-> b]

startOfDay(dt) == dt - (dt % DayMs)
minuteOf(dt) == (dt \div MinuteMs) % 60
\* dt.weekday, Monday = 1 .. Sunday = 7 (day 0 of the epoch is a Thursday)
weekday(dt) == (((dt \div DayMs) + 3) % 7) + 1
hasSameDay(a, b) == startOfDay(a) = startOfDay(b)

\* parseHm('HH:MM') as minutes past midnight, and the window of one day
buildDayWindow(dayDt, startHm, endHm) ==
  Iv(startOfDay(dayDt) + startHm * MinuteMs, startOfDay(dayDt) + endHm * MinuteMs)

dayIsOpen(dt, daysArr) == weekday(dt) \in daysArr

\* clipInterval: the part of interval inside [L, R], or null (here: absent)
clipInterval(interval, L, R) ==
  LET a == IF interval.start < L THEN L ELSE interval.start
      b == IF interval.end > R THEN R ELSE interval.end
  IN IF a < b THEN <<Iv(a, b)>> ELSE <<>>

\* intervals.slice().sort((a, b) => a.start - b.start): a stable sort
RECURSIVE insertByStart(_, _)
insertByStart(sorted, x) ==
  IF sorted = <<>> THEN <<x>>
  ELSE IF sorted[Len(sorted)].start <= x.start THEN Append(sorted, x)
  ELSE Append(insertByStart(SubSeq(sorted, 1, Len(sorted) - 1), x), sorted[Len(sorted)])

RECURSIVE sortByStart(_)
sortByStart(intervals) ==
  IF intervals = <<>> THEN <<>>
  ELSE insertByStart(sortByStart(SubSeq(intervals, 1, Len(intervals) - 1)),
                     intervals[Len(intervals)])

\* the loop of mergeIntervals over sorted[i .. ], out being the list built so far
RECURSIVE mergeLoop(_, _, _)
mergeLoop(sorted, i, out) ==
  IF i > Len(sorted) THEN out
  ELSE LET cur == sorted[i]
           last == out[Len(out)]
       IN IF cur.start <= last.end
            THEN mergeLoop(sorted, i + 1,
                   IF cur.end > last.end THEN [out EXCEPT ![Len(out)].end = cur.end] ELSE out)
            ELSE mergeLoop(sorted, i + 1, Append(out, cur))

\* mergeIntervals without the sort
mergeIntervals_Unsorted(intervals) ==
  IF intervals = <<>> THEN <<>>
  ELSE mergeLoop(intervals, 2, <<intervals[1]>>)

mergeIntervals(intervals) ==
  IF intervals = <<>> THEN <<>>
  ELSE LET sorted == sortByStart(intervals)
       IN mergeLoop(sorted, 2, <<sorted[1]>>)

\* the loop of freeGaps over merged[i .. ]
RECURSIVE gapLoop(_, _, _, _, _)
gapLoop(merged, i, cursor, R, gaps) ==
  IF i > Len(merged)
    THEN IF cursor < R THEN Append(gaps, Iv(cursor, R)) ELSE gaps
  ELSE LET iv == merged[i]
       IN gapLoop(merged, i + 1,
                  IF iv.end > cursor THEN iv.end ELSE cursor, R,
                  IF iv.start > cursor THEN Append(gaps, Iv(cursor, iv.start)) ELSE gaps)

\* a faulty freeGaps that leaves out the gap after the last busy interval
freeGaps_NoTail(L, R, busy) == gapLoop(mergeIntervals(busy), 1, L, L, <<>>)

freeGaps(L, R, busy) == gapLoop(mergeIntervals(busy), 1, L, R, <<>>)

\* ceilToStep: up to the next minute of the hour that is a multiple of stepMin,
\* seconds and milliseconds set to zero
\* a % b of JavaScript for a >= 0 and b # 0: the sign of b does not matter
jsRem(a, b) == IF b > 0 THEN a % b ELSE a % (0 - b)

ceilToStep(dt, stepMin) ==
  LET remainder == jsRem(minuteOf(dt), stepMin)
      floorMin(x) == x - (x % MinuteMs)
  IN IF remainder = 0 THEN floorMin(dt)
     ELSE floorMin(dt + (stepMin - remainder) * MinuteMs)

applyBuffer(busy, bufferMin) ==
  IF bufferMin = 0 THEN busy
  ELSE [i \in DOMAIN busy |->
          Iv(busy[i].start - bufferMin * MinuteMs, busy[i].end + bufferMin * MinuteMs)]

\* the while loop of genSlotsBackToBack inside one gap
RECURSIVE slotLoop(_, _, _)
slotLoop(start, gapEnd, step) ==
  IF start + step * MinuteMs <= gapEnd
    THEN <<Iv(start, start + step * MinuteMs)>> \o slotLoop(start + step * MinuteMs, gapEnd, step)
    ELSE <<>>

RECURSIVE genSlotsBackToBack(_, _, _)
genSlotsBackToBack(gaps, durationMin, nowDt) ==
  IF gaps = <<>> THEN <<>>
  ELSE LET g == gaps[1]
           from == IF hasSameDay(nowDt, g.start) /\ g.start < nowDt THEN nowDt ELSE g.start
       IN slotLoop(ceilToStep(from, durationMin), g.end, durationMin)
            \o genSlotsBackToBack(Tail(gaps), durationMin, nowDt)

RECURSIVE clipAll(_, _, _)
clipAll(busy, L, R) ==
  IF busy = <<>> THEN <<>>
  ELSE clipInterval(busy[1], L, R) \o clipAll(Tail(busy), L, R)

\* the day loop of checkAvailability from the day of cursor to lastDay
RECURSIVE dayLoop(_, _, _, _, _, _, _, _, _)
dayLoop(cursor, lastDay, fromDT, toDT, busy, biz, durMin, bufferMin, nowDt) ==
  IF cursor > lastDay THEN <<>>
  ELSE LET win == buildDayWindow(cursor, biz.start, biz.end)
           dayL == IF fromDT > win.start THEN fromDT ELSE win.start
           dayR == IF toDT < win.end THEN toDT ELSE win.end
           dayBusy == applyBuffer(clipAll(busy, dayL, dayR), bufferMin)
           rest == dayLoop(cursor + DayMs, lastDay, fromDT, toDT, busy, biz, durMin,
                           bufferMin, nowDt)
       IN IF ~dayIsOpen(cursor, biz.days) \/ dayL >= dayR THEN rest
          ELSE genSlotsBackToBack(freeGaps(dayL, dayR, dayBusy), durMin, nowDt) \o rest

\* busy.map(iv => clipInterval(iv, dayL, dayR)).filter(Boolean) is clipAll above

\* durMin and bufferMin as checkAvailability derives them from the parameters
durMinOf(p) == IF p.hasDuration THEN p.duration ELSE DEFAULT_DURATION_MIN
bufferMinOf(p) == p.buffer

\* checkAvailability from the busy list to result.slots
checkSlots(p, busy, biz, nowDt) ==
  dayLoop(startOfDay(p.from.ms), startOfDay(p.to.ms), p.from.ms, p.to.ms, busy, biz,
          durMinOf(p), bufferMinOf(p), nowDt)

\* ----------------------------------------------------------------- request
IdleReq ==
  [pc |-> "idle", h |-> [authorization |-> Empty, xkey |-> Empty], ip |-> "",
   body |-> [valid |-> FALSE, tool |-> "", action |-> "", params |-> NoParams],
   at |-> 0, prior |-> {}, stored |-> {}, cached |-> [hit |-> FALSE, value |-> NoData],
   plan |-> Err("", ""), result |-> NoData, resp |-> NoResp, fx |-> NoFx,
   trail |-> <<>>, sent |-> 0, items |-> <<>>, listedAt |-> 0]

\* a faulty pipeline that validates the envelope before anything else
Gate_EnvelopeFirst(h, ip, body, t) ==
  LET a == auth(h)
      rl == rateLimit(buckets, h, ip, t)
      ra == rateAllow(rateWindows, OrElse(incomingApiKey(h), Anon), t)
      keep == [buckets |-> buckets, rateWindows |-> rateWindows]
      mw == [buckets |-> rl.buckets, rateWindows |-> rateWindows]
      rt == [buckets |-> rl.buckets, rateWindows |-> ra.rateWindows]
      t1 == <<"envelope", "mw_auth">>
      t2 == Append(t1, "mw_rate")
      t3 == Append(t2, "auth")
      t4 == Append(t3, "rate")
      t6 == Append(t4, "route")
  IN IF ~body.valid
       THEN keep @@ [resp |-> ErrResp(400, "", "JSON invalido", "envelope"),
                     trail |-> <<"envelope">>]
     ELSE IF a # 0
       THEN keep @@ [resp |-> ErrResp(a, "", "No autorizado", "mw_auth"), trail |-> t1]
     ELSE IF ~rl.pass
       THEN mw @@ [resp |-> ErrResp(429, "", "rate_limit_exceeded", "mw_rate"), trail |-> t2]
     ELSE IF ~authorized(h)
       THEN mw @@ [resp |-> ErrResp(401, "UNAUTHORIZED", "Invalid API key", "auth"),
                   trail |-> t3]
     ELSE IF ~ra.allow
       THEN rt @@ [resp |-> ErrResp(429, "RATE_LIMIT", "Rate limit exceeded", "rate"),
                   trail |-> t4]
     ELSE IF body.tool = "health" /\ body.action = "ping"
       THEN rt @@ [resp |-> OkResp(NoData, "health"), trail |-> t6]
     ELSE IF ~hasAction(body.tool, body.action)
       THEN rt @@ [resp |-> ErrResp(404, "", "desconocida", "route"), trail |-> t6]
     ELSE rt @@ [resp |-> NoResp, trail |-> t6]

\* the synchronous pipeline in front of the handler: auth, rateLimit, then the
\* router's own authorization, rateAllow, envelope validation and routing
Gate(h, ip, body, t) ==
  LET a == auth(h)
      rl == rateLimit(buckets, h, ip, t)
      ra == rateAllow(rateWindows, OrElse(incomingApiKey(h), Anon), t)
      keep == [buckets |-> buckets, rateWindows |-> rateWindows]
      mw == [buckets |-> rl.buckets, rateWindows |-> rateWindows]
      rt == [buckets |-> rl.buckets, rateWindows |-> ra.rateWindows]
      \* the stages entered so far, in the order the code enters them
      t1 == <<"mw_auth">>
      t2 == Append(t1, "mw_rate")
      t3 == Append(t2, "auth")
      t4 == Append(t3, "rate")
      t5 == Append(t4, "envelope")
      t6 == Append(t5, "route")
  IN IF a = 500
       THEN keep @@ [resp |-> ErrResp(500, "", "API_KEY no configurada", "mw_auth"),
                     trail |-> t1]
     ELSE IF a = 401
       THEN keep @@ [resp |-> ErrResp(401, "", "No autorizado", "mw_auth"), trail |-> t1]
     ELSE IF ~rl.pass
       THEN mw @@ [resp |-> ErrResp(429, "", "rate_limit_exceeded", "mw_rate"), trail |-> t2]
     ELSE IF ~authorized(h)
       THEN mw @@ [resp |-> ErrResp(401, "UNAUTHORIZED", "Invalid API key", "auth"),
                   trail |-> t3]
     ELSE IF ~ra.allow
       THEN rt @@ [resp |-> ErrResp(429, "RATE_LIMIT", "Rate limit exceeded", "rate"),
                   trail |-> t4]
     ELSE IF ~body.valid
       THEN rt @@ [resp |-> ErrResp(400, "", "JSON invalido", "envelope"), trail |-> t5]
     ELSE IF body.tool = "health" /\ body.action = "ping"
       THEN rt @@ [resp |-> OkResp(NoData, "health"), trail |-> t6]
     ELSE IF ~hasTool(body.tool)
       THEN rt @@ [resp |-> ErrResp(404, "", "Tool desconocida", "route"), trail |-> t6]
     ELSE IF ~hasAction(body.tool, body.action)
       THEN rt @@ [resp |-> ErrResp(404, "", "Accion desconocida", "route"), trail |-> t6]
     ELSE rt @@ [resp |-> NoResp, trail |-> t6]

\* res.json / res.status(..).json: the call is answered
Done(q, resp) ==
  [q EXCEPT !.pc = "done", !.resp = resp, !.cached = IdleReq.cached,
            !.plan = IdleReq.plan, !.result = NoData, !.sent = @ + 1]

\* calendar.actions.create -> createEvent, up to its first suspension: the
\* parameter checks, then either cache.get (a token is given) or exec()
StartCreate(r, base) ==
  LET p == base.body.params
      plan == createPlan(p, now)
      cid == p.client_request_id
      got == cache_get(store, idemKey(cid), now)
      q == [base EXCEPT !.fx.handler = TRUE, !.plan = plan,
                        !.trail = Append(@, "handler")]
  IN IF Failed(plan)
       THEN /\ req' = [req EXCEPT ![r] =
                  Done(q, ErrResp(httpOf(plan.err), plan.err, plan.message, "handler"))]
            /\ UNCHANGED <<store, inserts>>
     ELSE IF cid # ""
       THEN /\ store' = got.store
            /\ req' = [req EXCEPT ![r] =
                  [q EXCEPT !.pc = "idem_get", !.fx.gets = @ + 1, !.fx.miss = ~got.hit,
                            !.cached = [hit |-> got.hit, value |-> got.value]]]
            /\ UNCHANGED inserts
     ELSE /\ inserts' = Append(inserts, [r |-> r, cid |-> cid])
          /\ req' = [req EXCEPT ![r] = [q EXCEPT !.pc = "insert_wait", !.fx.inserts = @ + 1]]
          /\ UNCHANGED store

\* checkAvailability up to its cache lookup: the error thrown, or the cache key
checkKey(calId, p) ==
  <<"calendar.check", calId, p.from.ms, p.to.ms, durMinOf(p), bufferMinOf(p),
    IF p.barber = "" THEN "none" ELSE p.barber>>

checkPlan(p) ==
  LET cal == resolveCalendarId(p)
  IN IF ~p.from.present \/ ~p.to.present
       THEN Err("INVALID_RANGE", "INVALID_RANGE: from y to son requeridos")
     ELSE IF ~p.from.valid \/ ~p.to.valid \/ p.to.ms <= p.from.ms
       THEN Err("INVALID_RANGE", "INVALID_RANGE: rango invalido")
     ELSE cal

\* calendar.actions.check -> checkAvailability, up to `await cache.get(cacheKey)`
StartCheck(r, base) ==
  LET p == base.body.params
      plan == checkPlan(p)
      got == cache_get(store, checkKey(plan.val, p), now)
      q == [base EXCEPT !.fx.handler = TRUE, !.plan = plan,
                        !.trail = Append(@, "handler")]
  IN /\ UNCHANGED inserts
     /\ IF Failed(plan)
          THEN /\ req' = [req EXCEPT ![r] =
                     Done(q, ErrResp(httpOf(plan.err), plan.err, plan.message, "handler"))]
               /\ UNCHANGED store
          ELSE /\ store' = got.store
               /\ req' = [req EXCEPT ![r] =
                     [q EXCEPT !.pc = "check_get", !.fx.gets = @ + 1, !.fx.miss = ~got.hit,
                               !.cached = [hit |-> got.hit, value |-> got.value]]]

\* calendar.actions.cancel -> cancelEvent, up to `await calendar.events.delete`
StartCancel(r, base) ==
  LET plan == cancelPlan(base.body.params)
      q == [base EXCEPT !.fx.handler = TRUE, !.plan = plan,
                        !.trail = Append(@, "handler")]
  IN /\ UNCHANGED <<store, inserts>>
     /\ IF Failed(plan)
          THEN req' = [req EXCEPT ![r] =
                  Done(q, ErrResp(httpOf(plan.err), plan.err, plan.message, "handler"))]
          ELSE req' = [req EXCEPT ![r] = [q EXCEPT !.pc = "delete_wait"]]

\* `await handler(params)` for the handler the lookup built
Dispatch(r, base) ==
  LET kind == lookupHandler(base.body.tool, base.body.action)
      q == [base EXCEPT !.fx.handler = TRUE, !.trail = Append(@, "handler")]
  IN IF kind = "returns"
       THEN /\ req' = [req EXCEPT ![r] = Done(q, OkResp(NoData, "handler"))]
            /\ UNCHANGED <<store, inserts>>
     ELSE IF kind = "throws"
       THEN /\ req' = [req EXCEPT ![r] = Done(q, ErrResp(httpOf(""), "", "TypeError", "handler"))]
            /\ UNCHANGED <<store, inserts>>
     ELSE IF base.body.action = "create" THEN StartCreate(r, base)
     ELSE IF base.body.action = "cancel" THEN StartCancel(r, base)
     ELSE /\ base.body.action = "check"
          /\ StartCheck(r, base)

\* a faulty handler chain that answers the rejection but forgets to return: the
\* tool handler is still entered and reads the cache
Receive_NoReturn(r, h, ip, body) ==
  /\ req[r].pc = "idle"
  /\ r > 1 => req[r - 1].pc # "idle"
  /\ LET g == Gate(h, ip, body, now)
         base == [IdleReq EXCEPT !.h = h, !.ip = ip, !.body = body, !.at = now,
                                 !.prior = {q \in Reqs : req[q].pc = "done"},
                                 !.stored = {q \in Reqs : req[q].fx.sets > 0},
                                 !.trail = g.trail]
     IN /\ buckets' = g.buckets
        /\ rateWindows' = g.rateWindows
        /\ IF g.resp.http \in {401, 429} /\ body.tool = "calendar"
             THEN /\ req' = [req EXCEPT ![r] =
                        Done([base EXCEPT !.fx.handler = TRUE, !.fx.gets = 1], g.resp)]
                  /\ UNCHANGED <<store, inserts>>
           ELSE IF g.resp # NoResp
             THEN /\ req' = [req EXCEPT ![r] = Done(base, g.resp)]
                  /\ UNCHANGED <<store, inserts>>
             ELSE Dispatch(r, base)
  /\ UNCHANGED <<pure, cfg, now, events>>

\* one inbound POST /mcp, run to its first suspension point
Receive(r, h, ip, body) ==
  /\ req[r].pc = "idle"
  /\ r > 1 => req[r - 1].pc # "idle"
  /\ LET g == Gate(h, ip, body, now)
         base == [IdleReq EXCEPT !.h = h, !.ip = ip, !.body = body, !.at = now,
                                 !.prior = {q \in Reqs : req[q].pc = "done"},
                                 !.stored = {q \in Reqs : req[q].fx.sets > 0},
                                 !.trail = g.trail]
     IN /\ buckets' = g.buckets
        /\ rateWindows' = g.rateWindows
        /\ IF g.resp # NoResp
             THEN /\ req' = [req EXCEPT ![r] = Done(base, g.resp)]
                  /\ UNCHANGED <<store, inserts>>
             ELSE Dispatch(r, base)
  /\ UNCHANGED <<pure, cfg, now, events>>

\* a withIdempotency that looks the key up once more before calling fn()
Resume_LookupAgain(r) ==
  /\ req[r].pc = "idem_get"
  /\ LET again == cache_get(store, idemKey(req[r].body.params.client_request_id), now)
     IN IF req[r].cached.hit
          THEN /\ req' = [req EXCEPT ![r] = Done(@, OkResp(req[r].cached.value, "handler"))]
               /\ UNCHANGED inserts
        ELSE IF again.hit
          THEN /\ req' = [req EXCEPT ![r] = Done(@, OkResp(again.value, "handler"))]
               /\ UNCHANGED inserts
        ELSE /\ inserts' = Append(inserts, [r |-> r, cid |-> req[r].body.params.client_request_id])
             /\ req' = [req EXCEPT ![r] = [@ EXCEPT !.pc = "insert_wait", !.fx.inserts = @ + 1]]
  /\ UNCHANGED <<pure, cfg, now, buckets, rateWindows, store, events>>

\* withIdempotency after `await cache.get(key)`: return the cached value, or fn()
Resume(r) ==
  /\ req[r].pc = "idem_get"
  /\ IF req[r].cached.hit
       THEN /\ req' = [req EXCEPT ![r] = Done(@, OkResp(req[r].cached.value, "handler"))]
            /\ UNCHANGED inserts
       ELSE /\ inserts' = Append(inserts, [r |-> r, cid |-> req[r].body.params.client_request_id])
            /\ req' = [req EXCEPT ![r] = [@ EXCEPT !.pc = "insert_wait", !.fx.inserts = @ + 1]]
  /\ UNCHANGED <<pure, cfg, now, buckets, rateWindows, store, events>>

\* a withIdempotency that stores the key whether or not the insert succeeded
InsertReturn_StoreAlways(r, st) ==
  /\ req[r].pc = "insert_wait"
  /\ LET q == req[r]
         cid == q.body.params.client_request_id
         ev == [id |-> Len(events) + 1, calendarId |-> q.plan.val,
                start |-> q.plan.start, end |-> q.plan.end, who |-> q.plan.who,
                cid |-> cid]
         res == execResult(q.plan, ev)
     IN /\ events' = IF st = 200 THEN Append(events, ev) ELSE events
        /\ IF cid # ""
             THEN /\ store' = cache_set(store, idemKey(cid), res, IdemTtlSec, now)
                  /\ req' = [req EXCEPT ![r] =
                        [q EXCEPT !.pc = "idem_set", !.result = res, !.fx.sets = @ + 1]]
             ELSE /\ req' = [req EXCEPT ![r] = Done(q, OkResp(res, "handler"))]
                  /\ UNCHANGED store
  /\ UNCHANGED <<pure, cfg, now, buckets, rateWindows, inserts>>

\* an exec that issues events.insert a second time when the first attempt fails
InsertReturn_RetryOnce(r, st) ==
  /\ req[r].pc = "insert_wait"
  /\ LET q == req[r]
         cid == q.body.params.client_request_id
         ev == [id |-> Len(events) + 1, calendarId |-> q.plan.val,
                start |-> q.plan.start, end |-> q.plan.end, who |-> q.plan.who,
                cid |-> cid]
         res == execResult(q.plan, ev)
     IN IF st = 200
          THEN /\ events' = Append(events, ev)
               /\ UNCHANGED inserts
               /\ IF cid # ""
                    THEN /\ store' = cache_set(store, idemKey(cid), res, IdemTtlSec, now)
                         /\ req' = [req EXCEPT ![r] =
                               [q EXCEPT !.pc = "idem_set", !.result = res, !.fx.sets = @ + 1]]
                    ELSE /\ req' = [req EXCEPT ![r] = Done(q, OkResp(res, "handler"))]
                         /\ UNCHANGED store
        ELSE IF q.fx.inserts < 2
          THEN /\ inserts' = Append(inserts, [r |-> r, cid |-> cid])
               /\ req' = [req EXCEPT ![r] = [q EXCEPT !.fx.inserts = @ + 1]]
               /\ UNCHANGED <<store, events>>
        ELSE /\ req' = [req EXCEPT ![r] = Done(q, ErrResp(httpOf("500"), "500", "remote", "handler"))]
             /\ UNCHANGED <<store, events, inserts>>
  /\ UNCHANGED <<pure, cfg, now, buckets, rateWindows>>

\* calendar.events.insert settles with HTTP status st; exec and withIdempotency go on
InsertReturn(r, st) ==
  /\ req[r].pc = "insert_wait"
  /\ LET q == req[r]
         cid == q.body.params.client_request_id
         ev == [id |-> Len(events) + 1, calendarId |-> q.plan.val,
                start |-> q.plan.start, end |-> q.plan.end, who |-> q.plan.who,
                cid |-> cid]
         res == execResult(q.plan, ev)
     IN IF st = 200
          THEN /\ events' = Append(events, ev)
               /\ IF cid # ""
                    THEN /\ store' = cache_set(store, idemKey(cid), res, IdemTtlSec, now)
                         /\ req' = [req EXCEPT ![r] =
                               [q EXCEPT !.pc = "idem_set", !.result = res, !.fx.sets = @ + 1]]
                    ELSE /\ req' = [req EXCEPT ![r] = Done(q, OkResp(res, "handler"))]
                         /\ UNCHANGED store
        ELSE IF st = 403
          THEN /\ req' = [req EXCEPT ![r] = Done(q,
                     ErrResp(httpOf("GOOGLE_403_FORBIDDEN"), "GOOGLE_403_FORBIDDEN",
                             "GOOGLE_403_FORBIDDEN", "handler"))]
               /\ UNCHANGED <<store, events>>
        ELSE /\ req' = [req EXCEPT ![r] = Done(q, ErrResp(httpOf("500"), "500", "remote", "handler"))]
             /\ UNCHANGED <<store, events>>
  /\ UNCHANGED <<pure, cfg, now, buckets, rateWindows, inserts>>

\* checkAvailability after `await cache.get(cacheKey)`: return the cached result,
\* or ask the remote calendar for the events of the range
ResumeCheck(r) ==
  /\ req[r].pc = "check_get"
  /\ IF req[r].cached.hit
       THEN req' = [req EXCEPT ![r] = Done(@, OkResp(req[r].cached.value, "handler"))]
       ELSE req' = [req EXCEPT ![r] = [@ EXCEPT !.pc = "list_wait", !.fx.lists = @ + 1]]
  /\ UNCHANGED <<pure, cfg, now, buckets, rateWindows, store, events, inserts>>

\* calendar.events.list settles: with status 200 and the busy intervals items,
\* the slots are computed at the current time and stored; otherwise it throws
ListReturn(r, items, st) ==
  /\ req[r].pc = "list_wait"
  /\ LET q == req[r]
         p == q.body.params
         res == [NoData EXCEPT !.slots = checkSlots(p, items, cfg.biz, now)]
     IN IF st = 200
          THEN /\ store' = cache_set(store, checkKey(q.plan.val, p), res, DefaultTtlSec, now)
               /\ req' = [req EXCEPT ![r] =
                     [q EXCEPT !.pc = "check_set", !.result = res, !.fx.sets = @ + 1,
                               !.items = items, !.listedAt = now]]
          ELSE /\ req' = [req EXCEPT ![r] = Done(q, ErrResp(httpOf("500"), "500", "remote", "handler"))]
               /\ UNCHANGED store
  /\ UNCHANGED <<pure, cfg, now, buckets, rateWindows, events, inserts>>

\* after `await cache.set(...)` in withIdempotency or checkAvailability: the
\* result is returned and the router answers
Stored(r) ==
  /\ req[r].pc \in {"idem_set", "check_set"}
  /\ req' = [req EXCEPT ![r] = Done(@, OkResp(req[r].result, "handler"))]
  /\ UNCHANGED <<pure, cfg, now, buckets, rateWindows, store, events, inserts>>

\* the clock moves on to the instant t
Advance(t) ==
  /\ t > now
  /\ now' = t
  /\ UNCHANGED <<pure, cfg, buckets, rateWindows, store, req, events, inserts>>

\* ------------------------------------------------------------------ inputs
GoodHeader == [authorization |-> Bearer(Secret), xkey |-> Empty]

Soon == WhenAt(1800000)
Far == WhenAt(400000000)

Create(when, who, calendarId, barber, cid) ==
  [valid |-> TRUE, tool |-> "calendar", action |-> "create",
   params |-> [NoParams EXCEPT !.when = when, !.who = who, !.calendarId = calendarId,
                               !.barber = barber, !.client_request_id = cid]]

CreateBodies ==
  { Create(Soon, "ana", "calA", "", "T1"),
    Create(Soon, "bob", "calA", "", "T1"),
    Create(Far, "ana", "", "carlos", "T2"),
    Create(Soon, "ana", "calA", "", ""),
    Create(BadWhen, "ana", "calA", "", "T1"),
    Create(Soon, "", "", "nadie", "T1") }

CreateTimes == {3600000, 86400000, 90000000}

RemoteStatus == {200, 403, 500}

\* the outcomes of events.insert the create calls of Spec meet
CreateStatus == {200, 500}

\* ----------------------------------------------------------- specification
InitWith(c) ==
  /\ cfg = c
  /\ now = 0
  /\ buckets = EmptyMap
  /\ rateWindows = EmptyMap
  /\ store = EmptyMap
  /\ req = [r \in Reqs |-> IdleReq]
  /\ events = <<>>
  /\ inserts = <<>>
  /\ pure = NoPure

Init == InitWith([apiKey |-> Secret, ratePerMin |-> 60])

Next ==
  \/ \E r \in 1 .. MaxConc, b \in CreateBodies : Receive(r, GoodHeader, "ipA", b)
  \/ \E r \in Reqs : Resume(r)
  \/ \E r \in Reqs, st \in CreateStatus : InsertReturn(r, st)
  \/ \E r \in Reqs : Stored(r)
  \/ \E t \in CreateTimes : Advance(t)

Spec == Init /\ [][Next]_vars

\* ------------------------------------------- the gateway's own specifications
Health == [valid |-> TRUE, tool |-> "health", action |-> "ping", params |-> NoParams]
NoSuchTool == [valid |-> TRUE, tool |-> "nope", action |-> "create", params |-> NoParams]
BadEnvelope == [valid |-> FALSE, tool |-> "calendar", action |-> "", params |-> NoParams]
NoSuchAction == [valid |-> TRUE, tool |-> "calendar", action |-> "nope", params |-> NoParams]
\* names that no tool registers but every plain object inherits
InheritedAction ==
  [valid |-> TRUE, tool |-> "calendar", action |-> "constructor", params |-> NoParams]
InheritedTool == [valid |-> TRUE, tool |-> "constructor", action |-> "keys", params |-> NoParams]
InheritedThrows == [valid |-> TRUE, tool |-> "toString", action |-> "call", params |-> NoParams]
CreateFar == Create(Far, "ana", "calA", "", "T1")

\* authentication: both settings of API_KEY, every way of presenting a credential
AuthHeaders ==
  { [authorization |-> a, xkey |-> x] :
      a \in {Empty, Bearer(Secret), Bearer(Wrong), bearerLc(Secret)},
      x \in {Empty, Secret, Wrong} }

AuthBodies == {Health, CreateFar, NoSuchTool, BadEnvelope}

AuthTimes == {1000}

InitAuth == \E k \in {Empty, Secret} : InitWith([apiKey |-> k, ratePerMin |-> 60])

NextAuth ==
  \/ \E r \in 1 .. MaxConc, h \in AuthHeaders, b \in AuthBodies : Receive(r, h, "ipA", b)
  \/ \E r \in Reqs : Resume(r)
  \/ \E r \in Reqs, st \in RemoteStatus : InsertReturn(r, st)
  \/ \E r \in Reqs : Stored(r)
  \/ \E t \in AuthTimes : Advance(t)

SpecAuth == InitAuth /\ [][NextAuth]_vars

\* rate limiting: small limits, two caller addresses, instants around the
\* roll-over of the windows opened at 0 and at 500 ms; the calls are health
\* pings, which end in the gateway once both limiters have let them through
RateLimits == {-1, 0, 1, 2}

RateCalls ==
  { [h |-> GoodHeader, ip |-> "ipA", body |-> Health],
    [h |-> GoodHeader, ip |-> "ipB", body |-> Health],
    [h |-> [authorization |-> Empty, xkey |-> Secret], ip |-> "ipA", body |-> Health],
    [h |-> [authorization |-> Bearer(Wrong), xkey |-> Empty], ip |-> "ipA",
     body |-> Health] }

RateTimes == {500, 60200, 60500, 60600}

InitRate == \E n \in RateLimits : InitWith([apiKey |-> Secret, ratePerMin |-> n])

NextRate ==
  \/ \E r \in Reqs, c \in RateCalls : Receive(r, c.h, c.ip, c.body)
  \/ \E t \in RateTimes : Advance(t)

SpecRate == InitRate /\ [][NextRate]_vars

\* rejection: create calls with and without the secret against a limit that a
\* second call already exceeds
RejectLimits == {1, 2}

RejectCalls ==
  { [h |-> GoodHeader, ip |-> "ipA", body |-> CreateFar],
    [h |-> GoodHeader, ip |-> "ipA", body |-> BadEnvelope],
    [h |-> GoodHeader, ip |-> "ipA", body |-> NoSuchTool],
    [h |-> GoodHeader, ip |-> "ipA", body |-> NoSuchAction],
    [h |-> GoodHeader, ip |-> "ipA", body |-> InheritedAction],
    [h |-> GoodHeader, ip |-> "ipA", body |-> InheritedTool],
    [h |-> GoodHeader, ip |-> "ipA", body |-> InheritedThrows],
    [h |-> [authorization |-> Bearer(Wrong), xkey |-> Empty], ip |-> "ipA",
     body |-> CreateFar] }

RejectTimes == {60500}

InitReject == \E n \in RejectLimits : InitWith([apiKey |-> Secret, ratePerMin |-> n])

NextReject ==
  \/ \E r \in 1 .. MaxGate, c \in RejectCalls : Receive(r, c.h, c.ip, c.body)
  \/ \E r \in Reqs : Resume(r)
  \/ \E r \in Reqs, st \in RemoteStatus : InsertReturn(r, st)
  \/ \E r \in Reqs : Stored(r)
  \/ \E t \in RejectTimes : Advance(t)

SpecReject == InitReject /\ [][NextReject]_vars

\* availability: check calls for one Monday with business hours 08:00-12:00,
\* selected by calendar reference or by name, with several buffers
At(day, hh, mm) == day * DayMs + (hh * 60 + mm) * MinuteMs

Check(from, to, duration, buffer, calendarId, barber) ==
  [valid |-> TRUE, tool |-> "calendar", action |-> "check",
   params |-> [NoParams EXCEPT !.from = from, !.to = to, !.duration = duration,
                               !.hasDuration = TRUE, !.buffer = buffer,
                               !.calendarId = calendarId, !.barber = barber]]

Monday == 4
DayFrom == WhenAt(At(Monday, 0, 0))
DayTo == WhenAt(At(Monday, 23, 59))

CheckBodies ==
  { Check(DayFrom, DayTo, 30, 0, "calA", ""),
    Check(DayFrom, DayTo, 30, 0, "", "carlos"),
    Check(DayFrom, DayTo, 30, 15, "calA", ""),
    Check(DayFrom, DayTo, 30, -30, "calA", ""),
    Check(DayTo, DayFrom, 30, 0, "calA", "") }

\* what the remote calendar reports for the range
BusyLists ==
  { <<>>,
    <<Iv(At(Monday, 9, 0), At(Monday, 10, 0))>>,
    <<Iv(At(Monday, 7, 30), At(Monday, 8, 0))>> }

ListStatus == {200, 500}

CheckTimes == {60000, 130000}

BusinessHours == [days |-> {1, 2, 3, 4, 5}, start |-> 8 * 60, end |-> 12 * 60]

InitCheck == InitWith([apiKey |-> Secret, ratePerMin |-> 60, biz |-> BusinessHours])

NextCheck ==
  \/ \E r \in 1 .. MaxConc, b \in CheckBodies : Receive(r, GoodHeader, "ipA", b)
  \/ \E r \in Reqs : ResumeCheck(r)
  \/ \E r \in Reqs, items \in BusyLists, st \in ListStatus : ListReturn(r, items, st)
  \/ \E r \in Reqs : Stored(r)
  \/ \E t \in CheckTimes : Advance(t)

SpecCheck == InitCheck /\ [][NextCheck]_vars

\* ------------------------------------------------------- reading the calls
Started(r) == req[r].pc # "idle"
Finished(r) == req[r].pc = "done"
Succeeded(r) == Finished(r) /\ req[r].resp.status = "ok"
Token(r) == req[r].body.params.client_request_id
Inserted(r) == req[r].fx.inserts > 0
PastGet(r) == req[r].pc \in {"insert_wait", "idem_set", "done"} /\ req[r].fx.gets > 0
TtlMs == IdemTtlSec * 1000

\* a created the entry of its token, and every other call bearing the token
\* arrived after a had been answered
FirstOf(a) ==
  /\ Token(a) # ""
  /\ Succeeded(a)
  /\ Inserted(a)
  /\ \A c \in Reqs \ {a} : (Started(c) /\ Token(c) = Token(a)) => a \in req[c].prior

Replays(a, b) ==
  /\ a # b
  /\ FirstOf(a)
  /\ Finished(b)
  /\ Token(b) = Token(a)
  /\ req[b].at <= req[a].at + TtlMs

SameAnswer(a, b) ==
  /\ Succeeded(b)
  /\ req[b].resp.data = req[a].resp.data
  /\ ~Inserted(b)

\* the last event the remote calendar created for token cid (0 when none)
LastEventOf(cid) ==
  LET is == {i \in DOMAIN events : events[i].cid = cid}
  IN IF is = {} THEN 0 ELSE events[CHOOSE i \in is : \A j \in is : j <= i].id

\* C1: sequential create calls with the same client_request_id and the same
\* parameters, issued within the idempotency TTL of the first one, invoke the
\* remote insert at most once and all return the first call's booking data.
C1_SequentialReplaysAgree ==
  \A a, b \in Reqs :
    (Replays(a, b) /\ req[b].body = req[a].body) => SameAnswer(a, b)

\* C2: once a create call with token T has succeeded with result R, every later
\* create call with T made before the entry expires returns R without a remote
\* insert, whatever the time relative to the booked start and whatever its
\* other parameters.
C2_TokenReturnsStoredResult ==
  \A a, b \in Reqs : Replays(a, b) => SameAnswer(a, b)

\* C3: a call that observed a cache miss invokes the remote insert when it goes
\* on, whatever has been stored meanwhile; and the entry a token has in the
\* cache is the result of the call that stored last.
C3_MissAlwaysInserts ==
  /\ \A r \in Reqs : (req[r].fx.miss /\ PastGet(r)) => Inserted(r)
  /\ \A r \in Reqs :
       (Started(r) /\ Token(r) # "" /\ idemKey(Token(r)) \in DOMAIN store)
         => store[idemKey(Token(r))].value.id = LastEventOf(Token(r))

\* two calls with one token both missed, both inserted, and the cache holds the
\* result of the later insertion
C3_Witness ==
  \E a, b \in Reqs :
    /\ a # b /\ Token(a) # "" /\ Token(a) = Token(b)
    /\ req[a].fx.miss /\ req[b].fx.miss
    /\ Succeeded(a) /\ Succeeded(b)
    /\ Inserted(a) /\ Inserted(b)
    /\ req[a].resp.data.id < req[b].resp.data.id
    /\ idemKey(Token(a)) \in DOMAIN store
    /\ store[idemKey(Token(a))].value = req[b].resp.data

\* C4: the idempotency entry is written only after the remote insert succeeded:
\* every entry holds the result of an event the remote created for that token,
\* a failed call wrote nothing, and a call that finds no call with its token to
\* have stored before it performs the remote insert itself.
C4_CacheOnlyAfterInsert ==
  /\ \A k \in DOMAIN store :
       \E i \in DOMAIN events :
         /\ events[i].cid # ""
         /\ k = idemKey(events[i].cid)
         /\ store[k].value.id = events[i].id
  /\ \A r \in Reqs :
       (Finished(r) /\ req[r].resp.status = "error") => req[r].fx.sets = 0
  /\ \A r \in Reqs :
       (PastGet(r) /\ \A q \in req[r].stored : Token(q) # Token(r)) => Inserted(r)

\* a create whose remote insert failed, followed by a create with the same
\* token that inserted again and succeeded
C4_Witness ==
  \E a, b \in Reqs :
    /\ a \in req[b].prior
    /\ Token(a) # "" /\ Token(a) = Token(b)
    /\ Inserted(a) /\ req[a].resp.status = "error"
    /\ Inserted(b) /\ Succeeded(b)

\* ------------------------------------------------ reading the rate limiters
\* the calls the middleware limiter counted, and the ones it let through
ReachedMw(r) == Started(r) /\ req[r].resp.stage # "mw_auth"
PassedMw(r) == ReachedMw(r) /\ req[r].resp.stage # "mw_rate"
MwKey(r) == rateLimitKey(req[r].h, req[r].ip)

\* the calls the router's limiter was asked about, and the ones it allowed
ReachedRt(r) == PassedMw(r) /\ req[r].resp.stage # "auth"
PassedRt(r) == ReachedRt(r) /\ req[r].resp.stage # "rate"
RtKey(r) == OrElse(incomingApiKey(req[r].h), Anon)

Latest(S) == CHOOSE q \in S : \A p \in S : p <= q

\* the fixed window of call r at the middleware limiter, from the history of
\* calls alone: a window opens with the first call of a key, holds every call
\* up to 60000 ms later, and the next call after that opens a new one
RECURSIVE MwWin(_)
MwWin(r) ==
  LET prev == {q \in 1 .. r - 1 : ReachedMw(q) /\ MwKey(q) = MwKey(r)}
      w == MwWin(Latest(prev))
  IN IF prev # {} /\ req[r].at <= w.start + 60000
       THEN [start |-> w.start, ord |-> w.ord + 1]
       ELSE [start |-> req[r].at, ord |-> 1]

\* the same at the router's limiter, whose clock counts whole seconds
RECURSIVE RtWin(_)
RtWin(r) ==
  LET prev == {q \in 1 .. r - 1 : ReachedRt(q) /\ RtKey(q) = RtKey(r)}
      w == RtWin(Latest(prev))
      sec == req[r].at \div 1000
  IN IF prev # {} /\ sec - w.start < 60
       THEN [start |-> w.start, ord |-> w.ord + 1]
       ELSE [start |-> sec, ord |-> 1]

RateLimited(r) == Finished(r) /\ req[r].resp.http = 429
Unauthorized(r) == Finished(r) /\ req[r].resp.http = 401

\* C5: with a limit of N > 0, each limiter admits, for one key, exactly the
\* first N calls of a 60-second window and rejects every further call of that
\* window; the first call after the window has rolled over is admitted again.
C5_FirstNPerWindow ==
  cfg.ratePerMin > 0 =>
    \A r \in Reqs :
      /\ ReachedMw(r) => (PassedMw(r) <=> MwWin(r).ord <= cfg.ratePerMin)
      /\ ReachedRt(r) => (PassedRt(r) <=> RtWin(r).ord <= cfg.ratePerMin)

\* one caller used up its limit, had a further call of the window rejected by
\* the middleware limiter, saw another one rejected by the router's limiter, and
\* was admitted again once the window had rolled over
C5_Witness ==
  /\ cfg.ratePerMin > 0
  /\ \E a, b, c, d \in Reqs :
       /\ a < b /\ a < c /\ b < d /\ c < d
       /\ PassedRt(a) /\ Finished(a)
       /\ RateLimited(b) /\ req[b].resp.stage = "mw_rate" /\ MwKey(b) = MwKey(a)
       /\ RateLimited(c) /\ req[c].resp.stage = "rate" /\ RtKey(c) = RtKey(a)
       /\ PassedRt(d) /\ Finished(d) /\ MwKey(d) = MwKey(a)
       /\ MwWin(d).ord = 1 /\ RtWin(d).ord = 1

\* C6: rate limiting is counted per (credential, caller address): a call is
\* rejected as rate-limited only when its own credential and address already
\* made the configured number of calls in the last 60 seconds.
C6_CountedPerAddress ==
  cfg.ratePerMin > 0 =>
    \A r \in Reqs :
      RateLimited(r) =>
        Cardinality({q \in 1 .. r - 1 :
                       /\ ReachedMw(q)
                       /\ req[q].h = req[r].h /\ req[q].ip = req[r].ip
                       /\ req[q].at + 60000 >= req[r].at}) >= cfg.ratePerMin

\* C7: with RATE_LIMIT_PER_MINUTE zero or negative no call is rejected as
\* rate-limited at any stage.
C7_NonPositiveDisables ==
  cfg.ratePerMin <= 0 => \A r \in Reqs : ~RateLimited(r)

AtAuthStage(r) == Finished(r) /\ req[r].resp.stage \in {"mw_auth", "auth"}

\* C8: with no API_KEY configured no call is rejected at the authentication
\* stage.
C8_NoSecretAdmitsAll ==
  cfg.apiKey = Empty => \A r \in Reqs : ~AtAuthStage(r)

\* the one credential a call presents: the x-api-key header alone, or the token
\* of an Authorization header "Bearer <token>" alone
OneCredential(h) ==
  \/ h.xkey # Empty /\ h.authorization = Empty
  \/ h.xkey = Empty /\ startsWith(h.authorization, BearerWord \o <<" ">>)

CredentialOf(h) == IF h.xkey # Empty THEN h.xkey ELSE slice(h.authorization, 7)

\* C9: with a secret configured a call is authorized exactly when the
\* credential it presents, as a bearer token or in x-api-key, equals the secret.
C9_AuthorizedIffSecret ==
  cfg.apiKey # Empty =>
    \A r \in Reqs :
      (Finished(r) /\ OneCredential(req[r].h)) =>
        (~AtAuthStage(r) <=> CredentialOf(req[r].h) = cfg.apiKey)

\* C10: a call rejected as Unauthorized or RateLimited has ended, and for it no
\* tool handler ran, no remote insert was issued and the cache was neither read
\* nor written.
C10_RejectedReachesNothing ==
  \A r \in Reqs :
    req[r].resp.http \in {401, 429} => (Finished(r) /\ req[r].fx = NoFx)

\* a create call rejected as unauthorized, one rejected as rate-limited, and one
\* that was let through to its handler
C10_Witness ==
  \E a, b, c \in Reqs :
    /\ Unauthorized(a) /\ req[a].body = CreateFar
    /\ RateLimited(b) /\ req[b].body = CreateFar
    /\ req[c].body = CreateFar /\ req[c].fx.handler /\ Succeeded(c)

\* ------------------------------------------------- reading the stage order
\* the stage of the per-call state machine a step of the code belongs to:
\* 1 authenticate, 2 rate-check, 3 envelope validation, 4 routing, 5 execution
StageKind(st) ==
  CASE st \in {"mw_auth", "auth"} -> 1
    [] st \in {"mw_rate", "rate"} -> 2
    [] st = "envelope" -> 3
    [] st = "route" -> 4
    [] st = "handler" -> 5

LastStage(r) == req[r].trail[Len(req[r].trail)]

\* C11: every call enters the stages in the order authenticate, rate-check,
\* envelope validation, routing, execution: a stage is entered only after every
\* earlier stage was entered and passed, the stage that fails is the last one
\* entered and ends the call, and a call is answered exactly once, at its end.
C11_StagesInOrder ==
  \A r \in Reqs :
    LET tr == req[r].trail
    IN /\ Started(r) => tr # <<>>
       /\ \A j \in DOMAIN tr :
            \A k \in 1 .. StageKind(tr[j]) - 1 :
              \E i \in 1 .. j - 1 : StageKind(tr[i]) = k
       /\ (Finished(r) /\ req[r].resp.status = "error") => req[r].resp.stage = LastStage(r)
       /\ (Started(r) /\ ~Finished(r)) => LastStage(r) = "handler"
       /\ req[r].sent = IF Finished(r) THEN 1 ELSE 0

\* one call stopped at envelope validation, one stopped at routing, and a create
\* call in the same run that went through every stage and was answered
C11_Witness ==
  \E a, b, c \in Reqs :
    /\ req[a].resp.stage = "envelope" /\ req[b].resp.stage = "route"
    /\ Succeeded(c) /\ LastStage(c) = "handler" /\ Len(req[c].trail) = 7
    /\ req[c].body = CreateFar

UnknownRoute(r) ==
  /\ Started(r)
  /\ req[r].trail[Len(req[r].trail)] \in {"route", "handler"}
  /\ \/ req[r].body.tool \notin DOMAIN registry \union {"health"}
     \/ /\ req[r].body.tool \in DOMAIN registry
        /\ req[r].body.action \notin registry[req[r].body.tool]

\* C12: a call that names a tool the registry does not hold, or an action the
\* tool does not provide, is answered not-found, never with a server error, and
\* no handler runs for it.
C12_UnknownIsNotFound ==
  \A r \in Reqs :
    UnknownRoute(r) =>
      /\ Finished(r) /\ req[r].resp.http = 404
      /\ req[r].fx = NoFx

\* ------------------------------------------------- reading the check calls
IsCheck(r) == Started(r) /\ req[r].body.tool = "calendar" /\ req[r].body.action = "check"

\* the call asked the remote calendar and computed its slots from the answer
Computed(r) == IsCheck(r) /\ req[r].fx.sets > 0

SlotsOf(r) == IF Finished(r) THEN req[r].resp.data.slots ELSE req[r].result.slots

\* C13: the gateway memoizes read actions by (tool, action, parameters): once a
\* check call has been answered successfully, the same call arriving before
\* the entry's lifetime is over is answered from the gateway's cache, marked
\* fromCache, without the handler being invoked.
C13_GatewayMemoizesReads ==
  \A a, b \in Reqs :
    ( /\ IsCheck(a) /\ IsCheck(b)
      /\ Succeeded(a) /\ a \in req[b].prior
      /\ req[b].body = req[a].body
      /\ req[b].at <= req[a].at + DefaultTtlSec * 1000 )
    => (Finished(b) /\ req[b].resp.fromCache /\ ~req[b].fx.handler)

SixSlots ==
  << Iv(At(Monday, 8, 0), At(Monday, 8, 30)), Iv(At(Monday, 8, 30), At(Monday, 9, 0)),
     Iv(At(Monday, 10, 0), At(Monday, 10, 30)), Iv(At(Monday, 10, 30), At(Monday, 11, 0)),
     Iv(At(Monday, 11, 0), At(Monday, 11, 30)), Iv(At(Monday, 11, 30), At(Monday, 12, 0)) >>

Intersects(a, b) == a.start < b.end /\ b.start < a.end

\* C18: the buffer used by check is never negative, and no returned slot
\* intersects a reported busy interval widened by the buffer on both ends.
C18_BufferKeepsClear ==
  \A r \in Reqs :
    Computed(r) =>
      LET B == bufferMinOf(req[r].body.params)
          slots == SlotsOf(r)
          busy == req[r].items
      IN /\ B >= 0
         /\ \A i \in DOMAIN slots, j \in DOMAIN busy :
              ~Intersects(slots[i], Iv(busy[j].start - B * MinuteMs, busy[j].end + B * MinuteMs))

CalendarOf(r) == resolveCalendarId(req[r].body.params).val

\* C19: availability results are memoized on (calendar, from, to, duration,
\* buffer): a check that resolves to the same five values as an earlier
\* answered check, made before that one's entry expires, returns the earlier
\* result without a remote list query, however the calendar was selected.
C19_MemoizedOnFiveValues ==
  \A a, b \in Reqs :
    ( /\ IsCheck(a) /\ IsCheck(b) /\ a # b
      /\ Succeeded(a) /\ Succeeded(b) /\ a \in req[b].prior
      /\ CalendarOf(a) = CalendarOf(b)
      /\ req[a].body.params.from = req[b].body.params.from
      /\ req[a].body.params.to = req[b].body.params.to
      /\ durMinOf(req[a].body.params) = durMinOf(req[b].body.params)
      /\ bufferMinOf(req[a].body.params) = bufferMinOf(req[b].body.params)
      /\ req[b].at <= req[a].at + DefaultTtlSec * 1000 )
    => (req[b].fx.lists = 0 /\ req[b].resp.data = req[a].resp.data)

\* ------------------------------------------------- the cache on its own
\* The singleton cache driven directly: set with and without a ttl, get, del,
\* clear, and the clock.  pure keeps what was asked of it: for each key the
\* latest set (value, instant, ttl asked for) unless removed since, and the
\* latest get with what it returned.
CacheKeys == {"k1", "k2"}
CacheValues == {[NoData EXCEPT !.id = 1], [NoData EXCEPT !.id = 2]}
CacheTtls == {1, 2}
CacheTimes == {1000, 1001, 2000, 2001, 120000, 120001}

NoGot == [key |-> "", t |-> 0, hit |-> FALSE, value |-> NoData]

asked == IF pure.fn = "" THEN [fn |-> "", last |-> EmptyMap, got |-> NoGot] ELSE pure

CacheSet(k, v, ttlSeconds, hasTtl) ==
  /\ store' = IF hasTtl THEN cache_set(store, k, v, ttlSeconds, now)
                        ELSE cache_setDefault(store, k, v, now)
  /\ pure' = [asked EXCEPT !.fn = "set",
                !.last = Put(asked.last, k,
                             [value |-> v, t |-> now, hasTtl |-> hasTtl,
                              ttlMs |-> IF hasTtl THEN ttlSeconds * 1000 ELSE 0])]
  /\ UNCHANGED <<cfg, now, buckets, rateWindows, req, events, inserts>>

CacheGet(k) ==
  LET g == cache_get(store, k, now)
  IN /\ store' = g.store
     /\ pure' = [asked EXCEPT !.fn = "get",
                   !.got = [key |-> k, t |-> now, hit |-> g.hit, value |-> g.value]]
     /\ UNCHANGED <<cfg, now, buckets, rateWindows, req, events, inserts>>

CacheDel(k) ==
  /\ k \in DOMAIN store
  /\ store' = cache_del(store, k)
  /\ pure' = [asked EXCEPT !.fn = "del", !.last = Remove(asked.last, k)]
  /\ UNCHANGED <<cfg, now, buckets, rateWindows, req, events, inserts>>

CacheClear ==
  /\ store # EmptyMap
  /\ store' = cache_clear(store)
  /\ pure' = [asked EXCEPT !.fn = "clear", !.last = EmptyMap]
  /\ UNCHANGED <<cfg, now, buckets, rateWindows, req, events, inserts>>

InitCache == InitWith([apiKey |-> Secret, ratePerMin |-> 60])

NextCache ==
  \/ \E k \in CacheKeys, v \in CacheValues, ttl \in CacheTtls : CacheSet(k, v, ttl, TRUE)
  \/ \E k \in CacheKeys, v \in CacheValues : CacheSet(k, v, 0, FALSE)
  \/ \E k \in CacheKeys : CacheGet(k)
  \/ \E k \in CacheKeys : CacheDel(k)
  \/ CacheClear
  \/ \E t \in CacheTimes : Advance(t)

SpecCache == InitCache /\ [][NextCache]_vars

\* the expiry the latest set of a key asked for
ExpiryOf(l) == l.t + (IF l.hasTtl THEN l.ttlMs ELSE DefaultTtlSec * 1000)

\* the latest operation was a get of a key that was set and not removed since
GotSet == /\ pure.fn = "get"
          /\ pure.got.key \in DOMAIN pure.last

\* C14: a get of a key whose latest set (not overwritten, not removed since)
\* was at t with ttl returns that set's value at every instant up to t + ttl,
\* the default ttl when none was given, and returns absent after it; a get
\* after the expiry leaves the key out of the store.
C14_TtlCache ==
  GotSet =>
    LET g == pure.got
        l == pure.last[g.key]
    IN IF g.t <= ExpiryOf(l)
       THEN g.hit /\ g.value = l.value
       ELSE ~g.hit /\ g.key \notin DOMAIN store

\* the latest get came after the expiry of a set made with a ttl and returned
\* absent, while another key, set without a ttl, is still stored at the very
\* instant of its default expiry
C14_Witness ==
  /\ GotSet
  /\ ~pure.got.hit
  /\ pure.last[pure.got.key].hasTtl
  /\ pure.got.t > ExpiryOf(pure.last[pure.got.key])
  /\ \E k \in DOMAIN pure.last :
        /\ ~pure.last[k].hasTtl
        /\ k \in DOMAIN store
        /\ now = ExpiryOf(pure.last[k])

\* ------------------------------------------- mergeIntervals on its own
\* The function applied to each list of up to MaxLen intervals with ends in
\* 0 .. MaxPoint, and then to its own output.
MaxLen == 3
MaxPoint == 3

Intervals == {iv \in {Iv(a, b) : a \in 0..MaxPoint, b \in 0..MaxPoint} : iv.start <= iv.end}

RECURSIVE ListsOf(_, _)
ListsOf(S, n) ==
  IF n = 0 THEN {<<>>}
  ELSE LET shorter == ListsOf(S, n - 1)
       IN shorter \cup {Append(l, x) : l \in {m \in shorter : Len(m) = n - 1}, x \in S}

\* the state in which only a function of the code is applied, to arguments p
InitPure(p) ==
  /\ cfg = [apiKey |-> Secret, ratePerMin |-> 60]
  /\ now = 0
  /\ buckets = EmptyMap
  /\ rateWindows = EmptyMap
  /\ store = EmptyMap
  /\ req = [r \in Reqs |-> IdleReq]
  /\ events = <<>>
  /\ inserts = <<>>
  /\ pure = p

InitMerge ==
  \E l \in ListsOf(Intervals, MaxLen) :
    InitPure([fn |-> "mergeIntervals", step |-> 0, in |-> l, out |-> <<>>, again |-> <<>>])

Merge ==
  /\ pure.fn = "mergeIntervals" /\ pure.step = 0
  /\ pure' = [pure EXCEPT !.step = 1, !.out = mergeIntervals(pure.in)]
  /\ UNCHANGED <<cfg, now, buckets, rateWindows, store, req, events, inserts>>

MergeAgain ==
  /\ pure.fn = "mergeIntervals" /\ pure.step = 1
  /\ pure' = [pure EXCEPT !.step = 2, !.again = mergeIntervals(pure.out)]
  /\ UNCHANGED <<cfg, now, buckets, rateWindows, store, req, events, inserts>>

NextMerge == Merge \/ MergeAgain

SpecMerge == InitMerge /\ [][NextMerge]_vars

\* the instants a list of intervals covers: t stands for [t, t + 1)
Covered(l) == {t \in 0..MaxPoint : \E i \in DOMAIN l : l[i].start <= t /\ t < l[i].end}

\* C15: the list mergeIntervals returns is sorted ascending by start, its
\* intervals are pairwise non-overlapping, it covers exactly the instants the
\* input covers, and merging it again returns the same list.
C15_MergeIntervals ==
  /\ (pure.fn = "mergeIntervals" /\ pure.step >= 1) =>
        /\ \A i \in 1..Len(pure.out) - 1 : pure.out[i].start <= pure.out[i + 1].start
        /\ \A i, j \in DOMAIN pure.out : i # j => ~Intersects(pure.out[i], pure.out[j])
        /\ Covered(pure.out) = Covered(pure.in)
  /\ (pure.fn = "mergeIntervals" /\ pure.step = 2) => pure.again = pure.out

\* three intervals given out of order, two of them overlapping, merged into
\* two and merged again
C15_Witness ==
  /\ pure.fn = "mergeIntervals" /\ pure.step = 2
  /\ Len(pure.in) = 3 /\ Len(pure.out) = 2
  /\ pure.in[1].start > pure.in[2].start
  /\ \E i, j \in DOMAIN pure.in : i # j /\ Intersects(pure.in[i], pure.in[j])

\* --------------------------------------- genSlotsBackToBack on its own
\* The function applied to lists of up to MaxGaps free gaps, in order and
\* apart as freeGaps returns them, with ends among SlotPoints, to a duration
\* and to a value of now.
MaxGaps == 2
HeapSlots == 6

SlotPoints ==
  {At(Monday, 9, 0), At(Monday, 9, 0) + 30000, At(Monday, 9, 10),
   At(Monday, 10, 0), At(Monday, 10, 30), At(Monday, 11, 0)}

Gaps == {g \in {Iv(a, b) : a \in SlotPoints, b \in SlotPoints} : g.start < g.end}

GapLists ==
  {l \in ListsOf(Gaps, MaxGaps) : \A i \in 1..Len(l) - 1 : l[i].end < l[i + 1].start}

Durations == {30, 45}

SlotNows == {At(Monday - 1, 18, 0), At(Monday, 9, 15) + 20000, At(Monday, 9, 30) + 20000}

InitSlots ==
  \E gaps \in GapLists, d \in Durations, n \in SlotNows :
    InitPure([fn |-> "genSlotsBackToBack", step |-> 0, gaps |-> gaps, d |-> d,
              now |-> n, out |-> <<>>])

GenSlots ==
  /\ pure.fn = "genSlotsBackToBack" /\ pure.step = 0
  /\ pure' = [pure EXCEPT !.step = 1,
                          !.out = genSlotsBackToBack(pure.gaps, pure.d, pure.now)]
  /\ UNCHANGED <<cfg, now, buckets, rateWindows, store, req, events, inserts>>

NextSlots == GenSlots

SpecSlots == InitSlots /\ [][NextSlots]_vars

Inside(slot, gap) == gap.start <= slot.start /\ slot.end <= gap.end

\* C16: every slot genSlotsBackToBack returns is exactly d minutes long and
\* lies inside one of the gaps, and two slots next to each other in the same
\* gap have the second start where the first ends.
C16_SlotsInsideGaps ==
  (pure.fn = "genSlotsBackToBack" /\ pure.step = 1) =>
    /\ \A i \in DOMAIN pure.out :
          /\ pure.out[i].end - pure.out[i].start = pure.d * MinuteMs
          /\ \E j \in DOMAIN pure.gaps : Inside(pure.out[i], pure.gaps[j])
    /\ \A i \in 1..Len(pure.out) - 1 :
          (\E j \in DOMAIN pure.gaps :
              Inside(pure.out[i], pure.gaps[j]) /\ Inside(pure.out[i + 1], pure.gaps[j]))
            => pure.out[i + 1].start = pure.out[i].end

\* ------------------------------------------------------ identity resolver
\* tools/barbers.js in its two versions: the one that compares exactly and
\* the one that compares loosely.  A string is the sequence of its characters;
\* "a'" and "A'" stand for the letter with an acute accent, "FFFD" for the
\* replacement character U+FFFD.
toLowerCase(str) ==
  [i \in 1..Len(str) |->
     CASE str[i] = "A" -> "a"
       [] str[i] = "L" -> "l"
       [] str[i] = "E" -> "e"
       [] str[i] = "A'" -> "a'"
       [] OTHER -> str[i]]

\* .normalize('NFD').replace(/[\u0300-\u036f]/g, ''): the letter without its accent
stripMarks(str) == [i \in 1..Len(str) |-> IF str[i] = "a'" THEN "a" ELSE str[i]]

RECURSIVE removeFFFD(_)
removeFFFD(str) ==
  IF str = Empty THEN Empty
  ELSE IF Head(str) = "FFFD" THEN removeFFFD(Tail(str))
  ELSE <<Head(str)>> \o removeFFFD(Tail(str))

\* .replace(/\s+/g, ' ')
RECURSIVE collapseSpaces(_)
collapseSpaces(str) ==
  IF Len(str) < 2 THEN str
  ELSE IF IsSpace(str[1]) /\ IsSpace(str[2]) THEN collapseSpaces(Tail(str))
  ELSE <<Head(str)>> \o collapseSpaces(Tail(str))

\* normalize(str); loose selects the version of the file
normalize(str, loose) ==
  IF loose THEN trim(collapseSpaces(stripMarks(removeFFFD(toLowerCase(str)))))
  ELSE trim(stripMarks(toLowerCase(str)))

Min3(a, b, c) == IF a <= b /\ a <= c THEN a ELSE IF b <= c THEN b ELSE c

RECURSIVE levenshtein(_, _)
levenshtein(a, b) ==
  IF Len(a) = 0 THEN Len(b)
  ELSE IF Len(b) = 0 THEN Len(a)
  ELSE LET fa == SubSeq(a, 1, Len(a) - 1)
           fb == SubSeq(b, 1, Len(b) - 1)
       IN IF a[Len(a)] = b[Len(b)] THEN levenshtein(fa, fb)
          ELSE Min3(levenshtein(fa, fb) + 1, levenshtein(fa, b) + 1, levenshtein(a, fb) + 1)

\* a.includes(b)
includes(a, b) ==
  \E k \in 0..Len(a) - Len(b) : SubSeq(a, k + 1, k + Len(b)) = b

looseMatch(a, b) ==
  IF a = Empty \/ b = Empty THEN FALSE
  ELSE IF a = b THEN TRUE
  ELSE IF includes(a, b) \/ includes(b, a) THEN TRUE
  ELSE levenshtein(a, b) <= 1

\* the comparison each version makes of the query with a display name or alias
nameMatch(inputN, other, loose) == IF loose THEN looseMatch(inputN, other) ELSE inputN = other

BarberResult(ok, code, data, internal) ==
  [ok |-> ok, code |-> code, data |-> data, internal_id |-> internal]

\* the loop over Object.keys(barbers): acc holds matches and internalIdMatch
RECURSIVE barberLoop(_, _, _, _)
barberLoop(barbers, inputN, loose, acc) ==
  IF barbers = <<>> THEN acc
  ELSE LET b == barbers[1]
           display == normalize(b.displayName, loose)
           hit == \/ nameMatch(inputN, display, loose)
                  \/ \E k \in DOMAIN b.aliases :
                        nameMatch(inputN, normalize(b.aliases[k], loose), loose)
           found == [barber_id |-> b.barberId, displayName |-> b.displayName]
       IN barberLoop(Tail(barbers), inputN, loose,
            IF hit THEN [acc EXCEPT !.matches = Append(acc.matches, found)]
            ELSE IF inputN = normalize(b.barberId, loose)
              THEN [acc EXCEPT !.internalIdMatch = b.barberId]
            ELSE acc)

\* resolveBarber that looks at the internal id before the matches
resolveBarber_IdFirst(name, barbers, loose) ==
  IF name = Empty THEN BarberResult(FALSE, "BARBER_PARAM_MISSING", <<>>, Empty)
  ELSE LET acc == barberLoop(barbers, normalize(name, loose), loose,
                             [matches |-> <<>>, internalIdMatch |-> Empty])
       IN IF acc.internalIdMatch # Empty
            THEN BarberResult(FALSE, "BARBER_INTERNAL_ID_USED", <<>>, acc.internalIdMatch)
          ELSE IF Len(acc.matches) = 0
            THEN BarberResult(FALSE, "BARBER_NOT_FOUND", <<>>, Empty)
          ELSE IF Len(acc.matches) > 1
            THEN BarberResult(FALSE, "BARBER_AMBIGUOUS", acc.matches, Empty)
          ELSE BarberResult(TRUE, "", <<acc.matches[1]>>, Empty)

\* resolveBarber({ name }) over the table barbers; null and '' are both falsy
\* and both stand as Empty
resolveBarber(name, barbers, loose) ==
  IF name = Empty THEN BarberResult(FALSE, "BARBER_PARAM_MISSING", <<>>, Empty)
  ELSE LET acc == barberLoop(barbers, normalize(name, loose), loose,
                             [matches |-> <<>>, internalIdMatch |-> Empty])
       IN IF acc.internalIdMatch # Empty /\ Len(acc.matches) = 0
            THEN BarberResult(FALSE, "BARBER_INTERNAL_ID_USED", <<>>, acc.internalIdMatch)
          ELSE IF Len(acc.matches) = 0
            THEN BarberResult(FALSE, "BARBER_NOT_FOUND", <<>>, Empty)
          ELSE IF Len(acc.matches) > 1
            THEN BarberResult(FALSE, "BARBER_AMBIGUOUS", acc.matches, Empty)
          ELSE BarberResult(TRUE, "", <<acc.matches[1]>>, Empty)

\* ---------------------------------------------- the resolver on its own
Barber(id, displayName, aliases) ==
  [barberId |-> id, displayName |-> displayName, aliases |-> aliases]

B1 == <<"b", "1">>
B2 == <<"b", "2">>
Leo == <<"l", "e", "o">>
NameAna == <<"A", "n", "a">>
NameAnaAcute == <<"A", "n", "a'">>
NameAni == <<"A", "n", "i">>
NameLeo == <<"L", "e", "o">>
NameLea == <<"L", "e", "a">>
NameEli == <<"E", "l", "i">>

BarberTables ==
  { <<>>,
    <<Barber(B1, NameAna, <<NameAni>>), Barber(B2, NameLeo, <<>>)>>,
    <<Barber(B1, NameAna, <<>>), Barber(B2, NameAnaAcute, <<>>)>>,
    <<Barber(B1, NameLeo, <<NameLea>>), Barber(B2, NameLea, <<>>)>>,
    <<Barber(Leo, NameAna, <<>>), Barber(B2, NameLea, <<>>)>>,
    <<Barber(Leo, NameAna, <<>>), Barber(B2, NameLeo, <<>>)>>,
    <<Barber(Leo, NameEli, <<>>), Barber(B2, NameAna, <<NameAni, NameAnaAcute>>)>>,
    <<Barber(B1, NameLeo, <<>>), Barber(B2, NameLea, <<NameEli>>)>> }

BarberQueries ==
  { Empty, NameAna, <<" ", "a", "n", "a", " ">>, NameAnaAcute, <<"FFFD">> \o NameAna,
    <<"l", "e", " ", " ", "o">>, Leo, NameLeo, NameLea, NameEli, B1, <<"a", "n">>, <<"z", "e", "d">>,
    <<" ">> }

InitResolve ==
  \E t \in BarberTables, q \in BarberQueries, loose \in BOOLEAN :
    InitPure([fn |-> "resolveBarber", step |-> 0, name |-> q, barbers |-> t,
              loose |-> loose, out |-> BarberResult(FALSE, "", <<>>, Empty)])

Resolve ==
  /\ pure.fn = "resolveBarber" /\ pure.step = 0
  /\ pure' = [pure EXCEPT !.step = 1,
                          !.out = resolveBarber(pure.name, pure.barbers, pure.loose)]
  /\ UNCHANGED <<cfg, now, buckets, rateWindows, store, req, events, inserts>>

NextResolve == Resolve

SpecResolve == InitResolve /\ [][NextResolve]_vars

Resolved == pure.fn = "resolveBarber" /\ pure.step = 1

\* M: the entries of the table whose display name or some alias matches the
\* normalized query
MatchSet ==
  LET q == normalize(pure.name, pure.loose)
  IN {i \in DOMAIN pure.barbers :
        \/ nameMatch(q, normalize(pure.barbers[i].displayName, pure.loose), pure.loose)
        \/ \E k \in DOMAIN pure.barbers[i].aliases :
              nameMatch(q, normalize(pure.barbers[i].aliases[k], pure.loose), pure.loose)}

EntryOf(i) ==
  [barber_id |-> pure.barbers[i].barberId, displayName |-> pure.barbers[i].displayName]

IsInternalId ==
  \E i \in DOMAIN pure.barbers :
     normalize(pure.name, pure.loose) = normalize(pure.barbers[i].barberId, pure.loose)

\* C20: for a non-empty query the resolver answers with exactly the outcome
\* the match set M selects: the one member's id and display name when M has
\* one member, BARBER_AMBIGUOUS with all of M when it has more,
\* BARBER_INTERNAL_ID_USED when M is empty and the normalized query is an
\* internal id, BARBER_NOT_FOUND otherwise; no resource outside M is returned.
C20_ResolverOutcome ==
  (Resolved /\ pure.name # Empty) =>
    LET M == MatchSet
        out == pure.out
    IN /\ {out.data[k] : k \in DOMAIN out.data} \subseteq {EntryOf(i) : i \in M}
       /\ IF Cardinality(M) = 1
            THEN out.ok /\ out.data = <<EntryOf(CHOOSE i \in M : TRUE)>>
          ELSE IF Cardinality(M) > 1
            THEN /\ ~out.ok /\ out.code = "BARBER_AMBIGUOUS"
                 /\ {out.data[k] : k \in DOMAIN out.data} = {EntryOf(i) : i \in M}
                 /\ Len(out.data) = Cardinality(M)
          ELSE IF IsInternalId
            THEN ~out.ok /\ out.code = "BARBER_INTERNAL_ID_USED"
          ELSE ~out.ok /\ out.code = "BARBER_NOT_FOUND"

\* the query is the internal id of one entry and matches the name of another,
\* and the resolver answered with that other entry
C20_Witness ==
  /\ Resolved /\ pure.name # Empty
  /\ IsInternalId
  /\ Cardinality(MatchSet) = 1
  /\ pure.out.ok

\* ------------------------------------------- the day computation on its own
\* checkAvailability from the busy list it was given to the slots it returns,
\* applied to one Monday with several durations, buffers, busy lists,
\* business hours and values of now.
DayParams ==
  {Check(DayFrom, DayTo, d, b, "calA", "").params : d \in {30, 60}, b \in {0, 15}}

DayBusy ==
  BusyLists \cup
    {<<Iv(At(Monday, 11, 0), At(Monday, 11, 30)), Iv(At(Monday, 9, 0), At(Monday, 10, 0))>>}

DayHours == {BusinessHours, [BusinessHours EXCEPT !.end = 20 * 60]}

DayNows == {At(Monday - 1, 18, 0), At(Monday, 10, 10), At(Monday + 1, 9, 0)}

InitDay ==
  \E p \in DayParams, busy \in DayBusy, biz \in DayHours, n \in DayNows :
    InitPure([fn |-> "checkAvailability", step |-> 0, params |-> p, busy |-> busy,
              biz |-> biz, now |-> n, out |-> <<>>])

ComputeDay ==
  /\ pure.fn = "checkAvailability" /\ pure.step = 0
  /\ pure' = [pure EXCEPT !.step = 1,
                          !.out = checkSlots(pure.params, pure.busy, pure.biz, pure.now)]
  /\ UNCHANGED <<cfg, now, buckets, rateWindows, store, req, events, inserts>>

NextDay == ComputeDay

SpecDay == InitDay /\ [][NextDay]_vars

WorkedExample ==
  /\ pure.fn = "checkAvailability" /\ pure.step = 1
  /\ pure.biz.start = 8 * 60 /\ pure.biz.end = 12 * 60
  /\ weekday(At(Monday, 0, 0)) \in pure.biz.days
  /\ durMinOf(pure.params) = 30 /\ bufferMinOf(pure.params) = 0
  /\ pure.busy = <<Iv(At(Monday, 9, 0), At(Monday, 10, 0))>>
  /\ pure.now < At(Monday, 0, 0)

\* C17: for an open day wholly in the future with business hours 08:00-12:00,
\* one busy interval 09:00-10:00, duration 30 and buffer 0, check returns
\* exactly the slots 08:00, 08:30, 10:00, 10:30, 11:00 and 11:30, in that order.
C17_WorkedExample == WorkedExample => pure.out = SixSlots

\* the worked example was computed and gave six slots
C17_Witness == WorkedExample /\ Len(pure.out) = 6

\* the normalized display name and aliases of entry i
NamesOf(i) ==
  {normalize(pure.barbers[i].displayName, pure.loose)}
    \cup {normalize(pure.barbers[i].aliases[k], pure.loose) : k \in DOMAIN pure.barbers[i].aliases}

\* no name or alias is listed for two entries
DistinctNames == \A i, j \in DOMAIN pure.barbers : i # j => NamesOf(i) \cap NamesOf(j) = {}

\* the query is, letter for letter, the display name or an alias of entry i
NamedExactly(i) ==
  \/ pure.name = pure.barbers[i].displayName
  \/ \E k \in DOMAIN pure.barbers[i].aliases : pure.name = pure.barbers[i].aliases[k]

\* C21: in a table that lists no name twice, resolving the exact display
\* name of an entry, or one of its aliases, succeeds and returns that entry.
C21_ExactNameResolves ==
  (Resolved /\ pure.name # Empty /\ DistinctNames) =>
    \A i \in DOMAIN pure.barbers :
      NamedExactly(i) => (pure.out.ok /\ pure.out.data = <<EntryOf(i)>>)

\* C22: a query that equals an internal id and equals no display name and no
\* alias of any entry fails with BARBER_INTERNAL_ID_USED.
C22_InternalIdRefused ==
  (/\ Resolved /\ pure.name # Empty
   /\ IsInternalId
   /\ \A i \in DOMAIN pure.barbers : normalize(pure.name, pure.loose) \notin NamesOf(i))
    => (~pure.out.ok /\ pure.out.code = "BARBER_INTERNAL_ID_USED")

\* ------------------------------------- the parameter checks of create
\* create calls with a time that cannot be parsed, a start that is reached
\* and passed by the clock, a calendar selected by a key of barbers.json and
\* one selected by a name that is no key
ParamBodies ==
  { Create(BadWhen, "ana", "calA", "", "T1"),
    Create(Soon, "ana", "calA", "", "T1"),
    Create(Soon, "bob", "", "carlos", ""),
    Create(Soon, "ana", "", "nadie", "") }

ParamTimes == {Soon.ms, Soon.ms + 1}

ParamStatus == {200}

NextParams ==
  \/ \E r \in 1 .. MaxConc, b \in ParamBodies : Receive(r, GoodHeader, "ipA", b)
  \/ \E r \in Reqs : Resume(r)
  \/ \E r \in Reqs, st \in ParamStatus : InsertReturn(r, st)
  \/ \E r \in Reqs : Stored(r)
  \/ \E t \in ParamTimes : Advance(t)

SpecParams == Init /\ [][NextParams]_vars

\* the create call got as far as the check of its time: when and who are
\* given and the calendar is selected
ReachedWhen(r) ==
  /\ Started(r) /\ req[r].fx.handler /\ req[r].body.action = "create"
  /\ req[r].body.params.when.present /\ req[r].body.params.who # ""
  /\ ~Failed(resolveCalendarId(req[r].body.params))

NotFuture(r) ==
  req[r].body.params.when.valid /\ req[r].body.params.when.ms <= req[r].at

ByName(r) ==
  /\ Started(r) /\ req[r].fx.handler
  /\ req[r].body.action = "create"
  /\ req[r].body.params.when.present /\ req[r].body.params.who # ""
  /\ req[r].body.params.calendarId = "" /\ req[r].body.params.barber # ""

\* the keys of barbers.json: the internal ids the identity resolver refuses
InternalIds == DOMAIN barbersMap

\* C24: a create that selects its calendar by name and gives an internal id is
\* answered BARBER_INTERNAL_ID_USED, one that gives an unknown name is
\* answered BARBER_NOT_FOUND, and neither chooses a calendar or issues a
\* remote operation.
C24_NameGoesThroughResolver ==
  \A r \in Reqs :
    (ByName(r) /\ Finished(r)) =>
      /\ req[r].resp.error =
           IF req[r].body.params.barber \in InternalIds
             THEN "BARBER_INTERNAL_ID_USED" ELSE "BARBER_NOT_FOUND"
      /\ req[r].fx.inserts = 0 /\ req[r].fx.lists = 0

\* ------------------------------------------------------ cancel on its own
\* cancelEvent applied to its parameters: CancelStart runs it up to the await
\* of calendar.events.delete, CancelReturn from the collaborator's outcome to
\* what the function returns or throws.  An error e of the collaborator is
\* its e.response.status, e.statusCode, e.code (0 when absent) and message.
RemoteError(responseStatus, statusCode, code, message) ==
  [responseStatus |-> responseStatus, statusCode |-> statusCode, code |-> code,
   message |-> message]

NoError == RemoteError(0, 0, 0, "")

\* e?.response?.status || e?.statusCode || e?.code
statusOfError(e) ==
  IF e.responseStatus # 0 THEN e.responseStatus
  ELSE IF e.statusCode # 0 THEN e.statusCode
  ELSE e.code

CancelOut(kind, id, code, message, e) ==
  [kind |-> kind, id |-> id, cancelled |-> kind = "returned", code |-> code,
   message |-> message, e |-> e]

\* a catch block that reads the status from e.response only
cancelCatch_ResponseOnly(e) ==
  IF e.responseStatus = 404
    THEN CancelOut("thrown", "", "EVENT_NOT_FOUND", "EVENT_NOT_FOUND", NoError)
  ELSE IF e.responseStatus = 403
    THEN CancelOut("thrown", "", "GOOGLE_403_FORBIDDEN", "GOOGLE_403_FORBIDDEN", NoError)
  ELSE CancelOut("rethrown", "", "", e.message, e)

\* the catch block of cancelEvent
cancelCatch(e) ==
  IF statusOfError(e) = 404
    THEN CancelOut("thrown", "", "EVENT_NOT_FOUND", "EVENT_NOT_FOUND", NoError)
  ELSE IF statusOfError(e) = 403
    THEN CancelOut("thrown", "", "GOOGLE_403_FORBIDDEN", "GOOGLE_403_FORBIDDEN", NoError)
  ELSE CancelOut("rethrown", "", "", e.message, e)

CancelParams ==
  {[eventId |-> ev, calendarId |-> c, barber |-> b] :
      ev \in {"", "ev1"}, c \in {"", "calA"}, b \in {"", "carlos", "nadie"}}

RemoteErrors ==
  {RemoteError(a, b, c, m) :
      a \in {0, 403, 404, 500}, b \in {0, 404, 410}, c \in {0, 403, 404}, m \in {"boom"}}

InitCancel ==
  \E p \in CancelParams :
    InitPure([fn |-> "cancelEvent", step |-> 0, params |-> p, deletes |-> <<>>,
              out |-> CancelOut("", "", "", "", NoError), e |-> NoError])

CancelStart ==
  /\ pure.fn = "cancelEvent" /\ pure.step = 0
  /\ LET plan == cancelPlan(pure.params)
     IN pure' =
          IF Failed(plan)
            THEN [pure EXCEPT !.step = 2,
                              !.out = CancelOut("thrown", "", plan.err, plan.message, NoError)]
            ELSE [pure EXCEPT !.step = 1,
                   !.deletes = Append(@, [calendarId |-> plan.val,
                                          eventId |-> pure.params.eventId])]
  /\ UNCHANGED <<cfg, now, buckets, rateWindows, store, req, events, inserts>>

CancelReturn(ok, e) ==
  /\ pure.fn = "cancelEvent" /\ pure.step = 1
  /\ pure' = [pure EXCEPT !.step = 2, !.e = IF ok THEN NoError ELSE e,
                !.out = IF ok THEN CancelOut("returned", pure.params.eventId, "", "", NoError)
                        ELSE cancelCatch(e)]
  /\ UNCHANGED <<cfg, now, buckets, rateWindows, store, req, events, inserts>>

NextCancel ==
  \/ CancelStart
  \/ CancelReturn(TRUE, NoError)
  \/ \E e \in RemoteErrors : CancelReturn(FALSE, e)

SpecCancel == InitCancel /\ [][NextCancel]_vars

Cancelling == pure.fn = "cancelEvent"

\* the status the collaborator's error reports, in whichever field it has it
Reports(e, st) == st \in {e.responseStatus, e.statusCode, e.code}

\* the error reports one status only: its fields do not contradict each other
OneStatus(e) == Cardinality({e.responseStatus, e.statusCode, e.code} \ {0}) <= 1

\* C25: cancel without an event id or without a resource selector fails and
\* deletes nothing; otherwise it issues exactly one remote delete, and then
\* success returns the event id marked cancelled, a not-found status becomes
\* EVENT_NOT_FOUND, a permission-denied status becomes GOOGLE_403_FORBIDDEN,
\* and any other failure is thrown on as it came.
C25_CancelTranslates ==
  Cancelling =>
    LET p == pure.params
        out == pure.out
        complete == p.eventId # "" /\ (p.calendarId # "" \/ p.barber # "")
    IN /\ Len(pure.deletes) <= 1
       /\ ~complete => (Len(pure.deletes) = 0 /\ (pure.step = 2 => out.kind = "thrown"))
       /\ pure.step = 1 => Len(pure.deletes) = 1
       /\ (pure.step = 2 /\ Len(pure.deletes) = 1) =>
            IF pure.e = NoError
              THEN out.kind = "returned" /\ out.id = p.eventId /\ out.cancelled
            ELSE IF ~OneStatus(pure.e) THEN out.kind \in {"thrown", "rethrown"}
            ELSE IF Reports(pure.e, 404)
              THEN out.kind = "thrown" /\ out.code = "EVENT_NOT_FOUND"
            ELSE IF Reports(pure.e, 403)
              THEN out.kind = "thrown" /\ out.code = "GOOGLE_403_FORBIDDEN"
            ELSE out.kind = "rethrown" /\ out.e = pure.e

\* a delete that failed with the not-found status in e.statusCode alone was
\* answered EVENT_NOT_FOUND
C25_Witness ==
  /\ Cancelling /\ pure.step = 2 /\ Len(pure.deletes) = 1
  /\ pure.e.statusCode = 404 /\ pure.e.responseStatus = 0 /\ pure.e.code = 0
  /\ pure.out.code = "EVENT_NOT_FOUND"

\* ------------------------------------------------------ search on its own
\* searchBookings applied to its parameters.  SearchStart runs it up to the
\* first await of calendarApi.events.list, SearchListReturn from one answer of
\* the collaborator to the next list call or to the end of the function.
\* Instants are counted in minutes here (30 days of milliseconds do not fit
\* the integers of the model checker); the ISO strings the code sorts by are
\* all written in the one zone TZ, so they are ordered as their instants are.
Digits == {"0", "1", "2", "3", "4", "5", "6", "7", "8", "9"}

\* String(str || '').replace(/[^\d+]/g, '')
normalizePhone(str) == SelectSeq(str, LAMBDA c : c \in Digits \cup {"+"})

SearchRangeDays == 30

CalendarEvent(id, start, end, location, description) ==
  [id |-> id, start |-> start, end |-> end, location |-> location,
   description |-> description]

\* what the collaborator holds in each calendar, ordered by start time
remoteEvents(calendarId) ==
  IF calendarId = "calA"
    THEN << CalendarEvent("a1", 2000, 2500, <<"a", "n", "a">>, Empty),
            CalendarEvent("a2", 3000, 4000, <<"3", " ", "1">>, Empty) >>
  ELSE IF calendarId = "calB"
    THEN << CalendarEvent("b1", 1500, 1800, Empty, <<"A", "n", "a", " ", "3", "1">>),
            CalendarEvent("b2", 2000, 2200, <<"c", "2">>, <<"z">>),
            CalendarEvent("b3", 6000, 7000, Empty, <<"a", "n", "a">>) >>
  ELSE <<>>

\* events.list({calendarId, timeMin, timeMax, singleEvents, orderBy: 'startTime'})
eventsList(calendarId, timeMin, timeMax) ==
  SelectSeq(remoteEvents(calendarId), LAMBDA ev : ev.end > timeMin /\ ev.start < timeMax)

searchBarbers == <<Barber(B1, NameAna, <<>>), Barber(B2, NameLea, <<>>)>>

\* barbersCfg[barberId]: the calendarId and displayName of the configured id
barbersCfg(barberId) ==
  IF barberId = B1 THEN [calendarId |-> "calA", displayName |-> NameAna]
  ELSE IF barberId = B2 THEN [calendarId |-> "calB", displayName |-> NameLea]
  ELSE [calendarId |-> "", displayName |-> Empty]

SearchCalendar(calendarId, barberLabel) ==
  [calendarId |-> calendarId, barberLabel |-> barberLabel]

\* searchBookings before the list loop: the coded error it throws, or the
\* range and the calendars to query
searchPlan(p, t, loose) ==
  LET fromDT == IF p.from.present THEN p.from.ms ELSE t - SearchRangeDays * 24 * 60
      toDT == IF p.to.present THEN p.to.ms ELSE t + SearchRangeDays * 24 * 60
      badRange == \/ (p.from.present /\ ~p.from.valid)
                  \/ (p.to.present /\ ~p.to.valid)
                  \/ toDT <= fromDT
      resolved == resolveBarber(p.barber, searchBarbers, loose)
      calendars ==
        IF p.calendarId # ""
          THEN <<SearchCalendar(p.calendarId, IF p.barber # Empty THEN p.barber ELSE Empty)>>
        ELSE IF p.barber # Empty
          THEN <<SearchCalendar(barbersCfg(resolved.data[1].barber_id).calendarId,
                                barbersCfg(resolved.data[1].barber_id).displayName)>>
        ELSE [k \in 1..Len(searchBarbers) |->
                SearchCalendar(barbersCfg(searchBarbers[k].barberId).calendarId,
                               barbersCfg(searchBarbers[k].barberId).displayName)]
  IN IF p.phone = Empty /\ p.clientId = Empty
       THEN Err("IDENTIFIER_REQUIRED", "Debe enviar al menos phone o clientId")
     ELSE IF badRange THEN Err("INVALID_RANGE", "INVALID_RANGE")
     ELSE IF p.calendarId = "" /\ p.barber # Empty /\ ~resolved.ok
       THEN Err(resolved.code, resolved.code)
     ELSE Ok([timeMin |-> fromDT, timeMax |-> toDT, calendars |-> calendars])

\* phone ? normalizePhone(phone) : null, with '' as falsy as null
phoneNormOf(p) == normalizePhone(p.phone)

\* clientId ? String(clientId).trim().toLowerCase() : null
clientNormOf(p) == toLowerCase(trim(p.clientId))

\* the test of one event against the two identifiers
matchesEvent(ev, phoneNorm, clientNorm) ==
  LET locNorm == normalizePhone(ev.location)
      descNorm == toLowerCase(ev.description)
  IN \/ /\ phoneNorm # Empty
        /\ \/ (locNorm # Empty /\ includes(locNorm, phoneNorm))
           \/ includes(descNorm, toLowerCase(phoneNorm))
     \/ /\ clientNorm # Empty
        /\ \/ (locNorm # Empty /\ includes(locNorm, clientNorm))
           \/ includes(descNorm, clientNorm)

\* the inner loop over the items of one calendar: what it pushes on eventsOut
pushMatches(items, cal, phoneNorm, clientNorm) ==
  LET kept == SelectSeq(items, LAMBDA ev : matchesEvent(ev, phoneNorm, clientNorm))
  IN [k \in 1..Len(kept) |->
        [id |-> kept[k].id, start |-> kept[k].start, end |-> kept[k].end,
         barber |-> cal.barberLabel]]

SearchOut(kind, evs, code) == [kind |-> kind, events |-> evs, code |-> code]

\* a loop that goes on to the next calendar when one list call fails
listFailed_SkipCalendar(s) ==
  IF s.idx = Len(s.calendars)
    THEN [s EXCEPT !.step = "done", !.failed = @ \cup {s.idx},
                   !.out = SearchOut("returned", sortByStart(s.eventsOut), "")]
    ELSE [s EXCEPT !.idx = @ + 1, !.lists = @ + 1, !.failed = @ \cup {s.idx}]

\* the await of events.list throws: nothing catches it in searchBookings
listFailed(s) ==
  [s EXCEPT !.step = "done", !.failed = @ \cup {s.idx},
            !.out = SearchOut("thrown", <<>>, "REMOTE")]

\* events.list answered for calendar idx: its matches are pushed, and the
\* loop goes to the next calendar or to the sort and the return
listAnswered(s) ==
  LET cal == s.calendars[s.idx]
      items == eventsList(cal.calendarId, s.timeMin, s.timeMax)
      out == s.eventsOut \o pushMatches(items, cal, phoneNormOf(s.params), clientNormOf(s.params))
  IN IF s.idx = Len(s.calendars)
       THEN [s EXCEPT !.step = "done", !.eventsOut = out,
                      !.out = SearchOut("returned", sortByStart(out), "")]
       ELSE [s EXCEPT !.idx = @ + 1, !.lists = @ + 1, !.eventsOut = out]

SearchWhen(present, valid, ms) == [present |-> present, valid |-> valid, ms |-> ms]

SearchParams ==
  {[phone |-> ph, clientId |-> cl, from |-> range[1], to |-> range[2],
    barber |-> sel[1], calendarId |-> sel[2]] :
      ph \in {Empty, <<"3", "-", "1">>, <<"x">>},
      cl \in {Empty, <<" ", "A", "n", "a">>, <<"a", "n", "a">>, <<"c", "2">>},
      range \in {<<SearchWhen(FALSE, FALSE, 0), SearchWhen(FALSE, FALSE, 0)>>,
                 <<SearchWhen(TRUE, TRUE, 1000), SearchWhen(TRUE, TRUE, 5000)>>,
                 <<SearchWhen(TRUE, TRUE, 5000), SearchWhen(TRUE, TRUE, 5000)>>,
                 <<SearchWhen(TRUE, FALSE, 0), SearchWhen(FALSE, FALSE, 0)>>},
      sel \in {<<Empty, "">>, <<Empty, "calA">>, <<NameLea, "">>, <<NameEli, "">>}}

InitSearch ==
  \E p \in SearchParams, loose \in BOOLEAN :
    InitPure([fn |-> "searchBookings", step |-> "start", params |-> p, loose |-> loose,
              timeMin |-> 0, timeMax |-> 0, calendars |-> <<>>, idx |-> 0, lists |-> 0,
              failed |-> {}, eventsOut |-> <<>>, out |-> SearchOut("", <<>>, "")])

SearchStart ==
  /\ pure.fn = "searchBookings" /\ pure.step = "start"
  /\ LET plan == searchPlan(pure.params, now, pure.loose)
     IN pure' =
          IF Failed(plan)
            THEN [pure EXCEPT !.step = "done", !.out = SearchOut("thrown", <<>>, plan.err)]
          ELSE IF \A k \in DOMAIN plan.val.calendars : plan.val.calendars[k].calendarId = ""
            THEN [pure EXCEPT !.step = "done",
                              !.out = SearchOut("thrown", <<>>, "MISSING_CALENDAR")]
          ELSE [pure EXCEPT !.step = "list", !.timeMin = plan.val.timeMin,
                            !.timeMax = plan.val.timeMax,
                            !.calendars = plan.val.calendars, !.idx = 1, !.lists = 1]
  /\ UNCHANGED <<cfg, now, buckets, rateWindows, store, req, events, inserts>>

SearchListReturn(ok) ==
  /\ pure.fn = "searchBookings" /\ pure.step = "list"
  /\ pure' = IF ok THEN listAnswered(pure) ELSE listFailed(pure)
  /\ UNCHANGED <<cfg, now, buckets, rateWindows, store, req, events, inserts>>

NextSearch ==
  \/ SearchStart
  \/ \E ok \in BOOLEAN : SearchListReturn(ok)

SpecSearch == InitSearch /\ [][NextSearch]_vars

Searching == pure.fn = "searchBookings"

\* C26: when the list query of any queried calendar fails, the search ends in
\* a failure and returns no list of events, however many calendars before it
\* answered.
C26_SearchAllOrNothing ==
  (Searching /\ pure.failed # {}) =>
    /\ pure.step = "done"
    /\ pure.out.kind = "thrown"
    /\ pure.out.events = <<>>
    /\ \A k \in pure.failed : pure.lists = k

\* the second calendar failed after the first had answered with a match
C26_Witness ==
  /\ Searching /\ pure.failed = {2} /\ pure.eventsOut # <<>>
  /\ pure.out.kind = "thrown"

SearchReturned == Searching /\ pure.step = "done" /\ pure.out.kind = "returned"

\* the events of the queried calendars that lie in the range
QueriedEvents ==
  UNION {{eventsList(pure.calendars[k].calendarId, pure.timeMin, pure.timeMax)[n] :
            n \in DOMAIN eventsList(pure.calendars[k].calendarId, pure.timeMin, pure.timeMax)} :
         k \in DOMAIN pure.calendars}

\* the identifiers of the search, normalized, those that are empty left out
SearchKeys == {phoneNormOf(pure.params), clientNormOf(pure.params)} \ {Empty}

\* the field as it is stored contains an identifier
ContainsKey(ev) ==
  \E key \in SearchKeys : includes(ev.location, key) \/ includes(ev.description, key)

\* the field contains an identifier once it is lowercased or reduced to its
\* digits
ContainsKeyNormalized(ev) ==
  \E key \in SearchKeys, f \in {ev.location, ev.description} :
     includes(toLowerCase(f), key) \/ includes(normalizePhone(f), key)

ReturnedIds == {pure.out.events[k].id : k \in DOMAIN pure.out.events}

SortedByStart ==
  \A k \in 1..Len(pure.out.events) - 1 :
     pure.out.events[k].start <= pure.out.events[k + 1].start

\* C27: a successful search returns exactly the events of the queried
\* calendars in the range whose location or description contains the
\* normalized phone or client identifier (every event whose stored field
\* contains one is returned, every returned event contains one at least after
\* normalization of the field), in ascending order of start time.
C27_SearchReturnsMatches ==
  SearchReturned =>
    /\ \A ev \in QueriedEvents : ContainsKey(ev) => ev.id \in ReturnedIds
    /\ \A ev \in QueriedEvents : ev.id \in ReturnedIds => ContainsKeyNormalized(ev)
    /\ ReturnedIds \subseteq {ev.id : ev \in QueriedEvents}
    /\ SortedByStart

\* ------------------------------------------- the handler's end, answered
\* The try block of the route around `await handler(params)`, on its own: two
\* routed calls side by side, each a handler that runs to its end (HandlerEnds)
\* and the route's continuation that answers it (Respond).  A call is either
\* barbers.resolve over a table, or a handler that throws an error with a
\* code and a message ("" for none).
RouteCall(kind, name, barbers, loose, code, message) ==
  [kind |-> kind, name |-> name, barbers |-> barbers, loose |-> loose,
   code |-> code, message |-> message]

NoResult == BarberResult(FALSE, "", <<>>, Empty)

Ended(kind, result, code, message) ==
  [kind |-> kind, result |-> result, code |-> code, message |-> message]

\* await handler(params): what the handler returns, or the error it throws
handlerEnd(call) ==
  IF call.kind = "resolve"
    THEN Ended("returned", resolveBarber(call.name, call.barbers, call.loose), "", "")
    ELSE Ended("thrown", NoResult, call.code, call.message)

RouteResp(http, status, code, message, wrapped, error) ==
  [http |-> http, status |-> status, code |-> code, message |-> message,
   payload |-> [wrapped |-> wrapped, error |-> error]]

\* the rest of the try block and the catch block: a returned { ok: true, data }
\* is unwrapped to its data, anything else returned is the payload as it is; a
\* thrown error is answered with its code and its message
respond(end) ==
  IF end.kind = "returned"
    THEN IF end.result.ok /\ end.result.data # <<>>
           THEN RouteResp(200, "ok", "", "OK", FALSE, "")
           ELSE RouteResp(200, "ok", "", "OK", TRUE, end.result.code)
    ELSE RouteResp(httpOf(end.code), "error", end.code,
                   IF end.message # "" THEN end.message ELSE "Error", FALSE, "")

RouteTables ==
  { <<Barber(B1, NameAna, <<NameAni>>), Barber(B2, NameLeo, <<>>)>>,
    <<Barber(Leo, NameAna, <<>>), Barber(B2, NameAnaAcute, <<>>)>> }

RouteCalls ==
  {RouteCall("resolve", q, t, loose, "", "") :
      q \in {Empty, NameAna, NameLeo, Leo, NameEli}, t \in RouteTables, loose \in BOOLEAN}
  \cup
  {RouteCall("throws", Empty, <<>>, FALSE, code, m) :
      code \in {"EVENT_NOT_FOUND", "IN_PAST", "GOOGLE_403_FORBIDDEN", "ECONNRESET", ""},
      m \in {"", "connect ECONNREFUSED 10.0.0.5:443", "Missing param: eventId"}}

RouteIds == {1, 2}

InitRoute ==
  \E a, b \in RouteCalls :
    InitPure([fn |-> "route", calls |-> <<a, b>>,
              pc |-> [i \in RouteIds |-> "called"],
              ends |-> [i \in RouteIds |-> Ended("", NoResult, "", "")],
              resps |-> [i \in RouteIds |-> RouteResp(0, "", "", "", FALSE, "")]])

HandlerEnds(i) ==
  /\ pure.fn = "route" /\ pure.pc[i] = "called"
  /\ pure' = [pure EXCEPT !.pc[i] = "ended", !.ends[i] = handlerEnd(pure.calls[i])]
  /\ UNCHANGED <<cfg, now, buckets, rateWindows, store, req, events, inserts>>

Respond(i) ==
  /\ pure.fn = "route" /\ pure.pc[i] = "ended"
  /\ pure' = [pure EXCEPT !.pc[i] = "responded", !.resps[i] = respond(pure.ends[i])]
  /\ UNCHANGED <<cfg, now, buckets, rateWindows, store, req, events, inserts>>

NextRoute ==
  \/ \E i \in RouteIds : HandlerEnds(i)
  \/ \E i \in RouteIds : Respond(i)

SpecRoute == InitRoute /\ [][NextRoute]_vars

Responded(i) == pure.fn = "route" /\ pure.pc[i] = "responded"

\* the code of the domain failure the handler of call i ended in, "" if none
FailureCode(i) ==
  IF pure.ends[i].kind = "thrown" THEN pure.ends[i].code
  ELSE IF ~pure.ends[i].result.ok THEN pure.ends[i].result.code
  ELSE ""

\* C28: a routed handler that ends in a domain failure, thrown as a coded
\* error or returned as a result with ok = false and an error code, is
\* answered with status "error" and that code, never with status "ok".
C28_FailureIsAnError ==
  \A i \in RouteIds :
     (Responded(i) /\ FailureCode(i) # "") =>
        (pure.resps[i].status = "error" /\ pure.resps[i].code = FailureCode(i))

\* C29: two handlers that fail with unanticipated errors, answered with the
\* server-error status, are answered with the same message whatever the
\* messages of their errors are.
C29_GenericMessage ==
  (Responded(1) /\ Responded(2) /\ pure.resps[1].http = 500 /\ pure.resps[2].http = 500) =>
     pure.resps[1].message = pure.resps[2].message

\* ------------------------------------------------- the limiters' counters
\* C30: with a positive limit the counter a limiter keeps for a key never
\* exceeds the configured maximum, however many calls of that key are
\* rejected within a window: a rejected call does not count.
C30_CounterStaysAtMax ==
  cfg.ratePerMin > 0 =>
    /\ \A key \in DOMAIN buckets : buckets[key].count <= cfg.ratePerMin
    /\ \A key \in DOMAIN rateWindows : rateWindows[key].count <= cfg.ratePerMin

\* --------------------------------------------- one attempt per operation
\* The four operations that call the remote calendar, side by side: create and
\* check calls through the gateway, and next to them one cancelEvent or one
\* searchBookings running on its own, each remote call failing or succeeding.
OnceBodies ==
  { Create(Soon, "ana", "calA", "", "T1"),
    Create(Soon, "ana", "calA", "", ""),
    Check(DayFrom, DayTo, 30, 0, "calA", "") }

OnceErrors == {RemoteError(500, 0, 0, "boom"), RemoteError(0, 0, 404, "gone")}

OncePure ==
  { [fn |-> "cancelEvent", step |-> 0,
     params |-> [eventId |-> "ev1", calendarId |-> "calA", barber |-> ""],
     deletes |-> <<>>, out |-> CancelOut("", "", "", "", NoError), e |-> NoError],
    [fn |-> "searchBookings", step |-> "start",
     params |-> [phone |-> <<"3", "-", "1">>, clientId |-> Empty,
                 from |-> SearchWhen(FALSE, FALSE, 0), to |-> SearchWhen(FALSE, FALSE, 0),
                 barber |-> Empty, calendarId |-> ""],
     loose |-> TRUE, timeMin |-> 0, timeMax |-> 0, calendars |-> <<>>, idx |-> 0,
     lists |-> 0, failed |-> {}, eventsOut |-> <<>>, out |-> SearchOut("", <<>>, "")] }

InitOnce ==
  /\ cfg = [apiKey |-> Secret, ratePerMin |-> 60, biz |-> BusinessHours]
  /\ now = 0
  /\ buckets = EmptyMap
  /\ rateWindows = EmptyMap
  /\ store = EmptyMap
  /\ req = [r \in Reqs |-> IdleReq]
  /\ events = <<>>
  /\ inserts = <<>>
  /\ pure \in OncePure

NextOnce ==
  \/ \E r \in 1 .. MaxConc, b \in OnceBodies : Receive(r, GoodHeader, "ipA", b)
  \/ \E r \in Reqs : Resume(r)
  \/ \E r \in Reqs, st \in CreateStatus : InsertReturn(r, st)
  \/ \E r \in Reqs : ResumeCheck(r)
  \/ \E r \in Reqs, st \in ListStatus : ListReturn(r, <<>>, st)
  \/ \E r \in Reqs : Stored(r)
  \/ CancelStart
  \/ CancelReturn(TRUE, NoError)
  \/ \E e \in OnceErrors : CancelReturn(FALSE, e)
  \/ SearchStart
  \/ \E ok \in BOOLEAN : SearchListReturn(ok)

SpecOnce == InitOnce /\ [][NextOnce]_vars

\* the events.insert calls invoked for call r
InsertsOf(r) == {k \in DOMAIN inserts : inserts[k].r = r}

RemoteFailed(r) == Finished(r) /\ req[r].fx.handler /\ req[r].resp.error = "500"

\* C31: no operation is retried: one create call invokes events.insert at most
\* once, one cancel invokes events.delete at most once, one check issues at most
\* one list query, one search at most one list query per queried calendar, and
\* a remote failure is answered after that single attempt.
C31_NoRetry ==
  /\ \A r \in Reqs :
       /\ Cardinality(InsertsOf(r)) <= 1 /\ req[r].fx.inserts = Cardinality(InsertsOf(r))
       /\ req[r].fx.lists <= 1
       /\ RemoteFailed(r) => req[r].fx.inserts + req[r].fx.lists = 1
  /\ pure.fn = "cancelEvent" =>
       /\ Len(pure.deletes) <= 1
       /\ (pure.step = 2 /\ pure.e # NoError) =>
             (Len(pure.deletes) = 1 /\ pure.out.kind \in {"thrown", "rethrown"})
  /\ pure.fn = "searchBookings" =>
       /\ pure.lists <= Len(pure.calendars)
       /\ pure.failed # {} => (pure.step = "done" /\ \A k \in pure.failed : pure.lists = k)

\* a create whose insert failed was answered with the error after its one
\* attempt, next to a cancel whose delete failed and was not repeated
C31_Witness ==
  /\ \E r \in Reqs :
       /\ RemoteFailed(r) /\ req[r].body.action = "create" /\ req[r].fx.inserts = 1
  /\ pure.fn = "cancelEvent" /\ pure.step = 2 /\ pure.e # NoError /\ Len(pure.deletes) = 1

\* ------------------------------------------------- slots and the present
Generated == pure.fn = "genSlotsBackToBack" /\ pure.step = 1

\* gap j lies on the calendar day of now and has begun
BegunToday(j) == hasSameDay(pure.now, pure.gaps[j].start) /\ pure.gaps[j].start <= pure.now

\* C32: of a gap on the calendar day of now that contains now no slot starts
\* earlier than now, and a gap of that day that ends at or before now yields no
\* slot at all: no slot taken from a gap that has begun today starts before now.
C32_NoSlotBeforeNow ==
  Generated =>
    \A i \in DOMAIN pure.out, j \in DOMAIN pure.gaps :
       (BegunToday(j) /\ Intersects(pure.out[i], pure.gaps[j])) => pure.out[i].start >= pure.now

\* ---------------------------------------------------- freeGaps on its own
\* freeGaps applied to a window [L, R) and a list of busy intervals, the
\* instants being 0 .. MaxPoint
InitGaps ==
  \E L \in 0..MaxPoint, R \in 0..MaxPoint, busy \in ListsOf(Intervals, MaxLen) :
    /\ L < R
    /\ InitPure([fn |-> "freeGaps", step |-> 0, L |-> L, R |-> R, busy |-> busy,
                 out |-> <<>>])

FreeGaps ==
  /\ pure.fn = "freeGaps" /\ pure.step = 0
  /\ pure' = [pure EXCEPT !.step = 1, !.out = freeGaps(pure.L, pure.R, pure.busy)]
  /\ UNCHANGED <<cfg, now, buckets, rateWindows, store, req, events, inserts>>

NextGaps == FreeGaps

SpecGaps == InitGaps /\ [][NextGaps]_vars

GapsComputed == pure.fn = "freeGaps" /\ pure.step = 1

\* C33: the gaps freeGaps returns are sorted and pairwise disjoint, each is
\* non-empty and lies in [L, R), none meets a busy interval, and together they
\* cover exactly the instants of [L, R) that no busy interval covers.
C33_GapsAreTheComplement ==
  GapsComputed =>
    /\ \A i \in 1..Len(pure.out) - 1 : pure.out[i].end <= pure.out[i + 1].start
    /\ \A i \in DOMAIN pure.out :
          /\ pure.out[i].start < pure.out[i].end
          /\ pure.L <= pure.out[i].start /\ pure.out[i].end <= pure.R
          /\ \A k \in DOMAIN pure.busy : ~Intersects(pure.out[i], pure.busy[k])
    /\ Covered(pure.out) = {t \in pure.L .. pure.R - 1 : t \notin Covered(pure.busy)}

\* ------------------------------------------------------ packing of a gap
\* where the slots of gap j may begin: at now when the gap is of the day of
\* now and began before it, at the gap's start otherwise
EffectiveStart(j) ==
  IF hasSameDay(pure.now, pure.gaps[j].start) /\ pure.gaps[j].start < pure.now
    THEN pure.now ELSE pure.gaps[j].start

\* the slots taken from gap j (gaps do not touch each other)
SlotsOfGap(j) ==
  {i \in DOMAIN pure.out :
      pure.out[i].end <= pure.gaps[j].end /\ pure.out[i].end > pure.gaps[j].start}

\* a boundary of the grid of step minutes: a whole minute whose minute of the
\* hour is a multiple of the step
OnGrid(t, stepMin) == t % MinuteMs = 0 /\ minuteOf(t) % stepMin = 0

\* the first boundary of the grid at or after the instant t (minute 0 of the
\* next hour is one, whatever the step)
FirstOnGrid(t, stepMin) ==
  LET ahead == {(t \div MinuteMs + k) * MinuteMs : k \in 0..60}
      on == {u \in ahead : u >= t /\ OnGrid(u, stepMin)}
  IN CHOOSE u \in on : \A v \in on : u <= v

\* C34: in each gap the first slot starts at the first boundary of the
\* duration grid at or after the gap's effective start, less than one duration
\* after it, and slots follow until less than one duration is left before the
\* gap's end; a gap without slots has no room for one from that boundary.
C34_PackingIsMaximal ==
  Generated =>
    \A j \in DOMAIN pure.gaps :
      LET S == SlotsOfGap(j)
          dur == pure.d * MinuteMs
          from == EffectiveStart(j)
      IN IF S = {}
           THEN FirstOnGrid(from, pure.d) + dur > pure.gaps[j].end
           ELSE LET first == pure.out[CHOOSE i \in S : \A k \in S : i <= k]
                    last == pure.out[CHOOSE i \in S : \A k \in S : k <= i]
                IN /\ first.start = FirstOnGrid(from, pure.d)
                   /\ first.start - from < dur
                   /\ pure.gaps[j].end - last.end < dur

\* ------------------------------------ the gateway with its response cache
\* the router revision that keeps a response cache in front of the handlers,
\* over the same cache singleton checkAvailability uses

\* the actions whose payload the gateway caches
gatewayCached_Always(action) == TRUE

gatewayCached(action) ==
  DefaultTtlSec > 0 /\ action \in {"check", "resolve", "search", "get"}

\* `mcp:${tool}:${action}:${sha256(JSON.stringify(params))}`, the digest taken
\* as one-to-one on the parameters
deterministicKey(body) == <<"mcp", body.tool, body.action, body.params>>

\* the ids the remote calendar gives the events, in the order it creates them
GoogleIds == <<"ev1", "ev2", "ev3", "ev4", "ev5", "ev6">>

\* the event ids deleted so far, and for each cache key the instant at which
\* the list query its value was computed from was answered
NoGateway == [fn |-> "gateway", deleted |-> {}, listed |-> EmptyMap]

Live(calId) ==
  {k \in 1 .. Len(events) :
      events[k].calendarId = calId /\ GoogleIds[k] \notin pure.deleted}

RECURSIVE busyUpTo(_, _)
busyUpTo(calId, n) ==
  IF n = 0 THEN <<>>
  ELSE IF n \in Live(calId)
    THEN Append(busyUpTo(calId, n - 1), Iv(events[n].start, events[n].end))
  ELSE busyUpTo(calId, n - 1)

\* calendar.events.list: the events of the calendar, in order of creation
eventsOf(calId) == busyUpTo(calId, Len(events))

\* one inbound POST /mcp: the gate, then the response cache for a cached
\* action, the handler for every other
GwReceive(r, h, ip, body) ==
  /\ req[r].pc = "idle"
  /\ r > 1 => req[r - 1].pc # "idle"
  /\ LET g == Gate(h, ip, body, now)
         key == deterministicKey(body)
         got == cache_get(store, key, now)
         base == [IdleReq EXCEPT !.h = h, !.ip = ip, !.body = body, !.at = now,
                                 !.prior = {q \in Reqs : req[q].pc = "done"},
                                 !.stored = {q \in Reqs : req[q].fx.sets > 0},
                                 !.trail = g.trail]
     IN /\ buckets' = g.buckets
        /\ rateWindows' = g.rateWindows
        /\ IF g.resp # NoResp
             THEN /\ req' = [req EXCEPT ![r] = Done(base, g.resp)]
                  /\ UNCHANGED <<store, inserts>>
           ELSE IF gatewayCached(body.action)
             THEN /\ store' = got.store
                  /\ req' = [req EXCEPT ![r] =
                        [base EXCEPT !.pc = "gw_get",
                                     !.cached = [hit |-> got.hit, value |-> got.value],
                                     !.listedAt = IF got.hit THEN pure.listed[key] ELSE 0,
                                     !.trail = Append(@, "gw_cache")]]
                  /\ UNCHANGED inserts
             ELSE Dispatch(r, base)
  /\ UNCHANGED <<pure, cfg, now, events>>

\* after `await cache.get(deterministicKey)`: the cached payload is answered
\* with fromCache, or the handler is called; checkAvailability runs up to its
\* own cache.get
GwResume(r) ==
  /\ req[r].pc = "gw_get"
  /\ LET q == req[r]
         p == q.body.params
         plan == checkPlan(p)
         key == checkKey(plan.val, p)
         got == cache_get(store, key, now)
         called == [q EXCEPT !.fx.handler = TRUE, !.plan = plan,
                             !.trail = Append(@, "handler")]
     IN IF q.cached.hit
          THEN /\ req' = [req EXCEPT ![r] =
                     Done(q, [OkResp(q.cached.value, "gw_cache") EXCEPT !.fromCache = TRUE])]
               /\ UNCHANGED <<store, inserts>>
        ELSE IF q.body.action # "check" THEN Dispatch(r, q)
        ELSE IF Failed(plan)
          THEN /\ req' = [req EXCEPT ![r] =
                     Done(called, ErrResp(httpOf(plan.err), plan.err, plan.message, "handler"))]
               /\ UNCHANGED <<store, inserts>>
        ELSE /\ store' = got.store
             /\ req' = [req EXCEPT ![r] =
                   [called EXCEPT !.pc = "check_get", !.fx.gets = @ + 1,
                                  !.fx.miss = ~got.hit,
                                  !.cached = [hit |-> got.hit, value |-> got.value],
                                  !.listedAt = IF got.hit THEN pure.listed[key] ELSE 0]]
             /\ UNCHANGED inserts
  /\ UNCHANGED <<pure, cfg, now, buckets, rateWindows, events>>

\* checkAvailability after its cache.get: a hit is returned to the router,
\* which stores it under the gateway key; a miss asks the remote calendar
GwResumeCheck(r) ==
  /\ req[r].pc = "check_get"
  /\ LET q == req[r]
         key == deterministicKey(q.body)
     IN IF q.cached.hit
          THEN /\ store' = cache_set(store, key, q.cached.value, DefaultTtlSec, now)
               /\ pure' = [pure EXCEPT !.listed = Put(@, key, q.listedAt)]
               /\ req' = [req EXCEPT ![r] =
                     [q EXCEPT !.pc = "gw_set", !.result = q.cached.value]]
          ELSE /\ req' = [req EXCEPT ![r] =
                     [q EXCEPT !.pc = "list_wait", !.fx.lists = @ + 1]]
               /\ UNCHANGED <<store, pure>>
  /\ UNCHANGED <<cfg, now, buckets, rateWindows, events, inserts>>

\* calendar.events.list settles: with status 200 and the events the calendar
\* holds now, the slots are computed and stored under the tool's key;
\* otherwise it throws
GwListReturn(r, st) ==
  /\ req[r].pc = "list_wait"
  /\ LET q == req[r]
         p == q.body.params
         key == checkKey(q.plan.val, p)
         items == eventsOf(q.plan.val)
         res == [NoData EXCEPT !.slots = checkSlots(p, items, cfg.biz, now)]
     IN IF st = 200
          THEN /\ store' = cache_set(store, key, res, DefaultTtlSec, now)
               /\ pure' = [pure EXCEPT !.listed = Put(@, key, now)]
               /\ req' = [req EXCEPT ![r] =
                     [q EXCEPT !.pc = "check_set", !.result = res, !.fx.sets = @ + 1,
                               !.items = items, !.listedAt = now]]
          ELSE /\ req' = [req EXCEPT ![r] =
                     Done(q, ErrResp(httpOf("500"), "500", "remote", "handler"))]
               /\ UNCHANGED <<store, pure>>
  /\ UNCHANGED <<cfg, now, buckets, rateWindows, events, inserts>>

\* after checkAvailability's `await cache.set(cacheKey, ...)`: the result is
\* returned and the router stores it under the gateway key
GwStored(r) ==
  /\ req[r].pc = "check_set"
  /\ LET q == req[r]
         key == deterministicKey(q.body)
     IN /\ store' = cache_set(store, key, q.result, DefaultTtlSec, now)
        /\ pure' = [pure EXCEPT !.listed = Put(@, key, q.listedAt)]
        /\ req' = [req EXCEPT ![r] = [q EXCEPT !.pc = "gw_set"]]
  /\ UNCHANGED <<cfg, now, buckets, rateWindows, events, inserts>>

\* after the router's `await cache.set(deterministicKey, ...)`: res.json
GwSent(r) ==
  /\ req[r].pc = "gw_set"
  /\ req' = [req EXCEPT ![r] = Done(@, OkResp(req[r].result, "handler"))]
  /\ UNCHANGED <<pure, cfg, now, buckets, rateWindows, store, events, inserts>>

\* calendar.events.delete settles with HTTP status st: 200 for an event the
\* calendar holds, 404 for one it does not, 500 at any time
DeleteReturn(r, st) ==
  /\ req[r].pc = "delete_wait"
  /\ LET q == req[r]
         id == q.body.params.eventId
         held == \E k \in Live(q.plan.val) : GoogleIds[k] = id
         out == cancelCatch(RemoteError(st, 0, 0, "remote"))
     IN /\ st = 200 => held
        /\ st = 404 => ~held
        /\ IF st = 200
             THEN /\ pure' = [pure EXCEPT !.deleted = @ \cup {id}]
                  /\ req' = [req EXCEPT ![r] = Done(q, OkResp(NoData, "handler"))]
           ELSE IF out.kind = "thrown"
             THEN /\ req' = [req EXCEPT ![r] =
                        Done(q, ErrResp(httpOf(out.code), out.code, out.message, "handler"))]
                  /\ UNCHANGED pure
           ELSE /\ req' = [req EXCEPT ![r] =
                      Done(q, ErrResp(httpOf("500"), "500", out.message, "handler"))]
                /\ UNCHANGED pure
  /\ UNCHANGED <<cfg, now, buckets, rateWindows, store, events, inserts>>

Cancel(eventId, calendarId) ==
  [valid |-> TRUE, tool |-> "calendar", action |-> "cancel",
   params |-> [eventId |-> eventId] @@ [NoParams EXCEPT !.calendarId = calendarId]]

\* a check that leaves the duration out: it takes the default of 30 minutes
CheckDefault ==
  [Check(DayFrom, DayTo, 0, 0, "calA", "") EXCEPT !.params.hasDuration = FALSE]

GatewayBodies ==
  { CheckDefault,
    Check(DayFrom, DayTo, 30, 0, "calA", ""),
    Create(WhenAt(At(Monday, 9, 0)), "ana", "calA", "", ""),
    Cancel("ev1", "calA") }

\* one second short of the cache lifetime, and one second short of twice it
GatewayTimes == {119000, 238000}

DeleteStatus == {200, 404, 500}

InitGateway ==
  /\ cfg = [apiKey |-> Secret, ratePerMin |-> 60, biz |-> BusinessHours]
  /\ now = 0
  /\ buckets = EmptyMap
  /\ rateWindows = EmptyMap
  /\ store = EmptyMap
  /\ req = [r \in Reqs |-> IdleReq]
  /\ events = <<>>
  /\ inserts = <<>>
  /\ pure = NoGateway

\* the calls are answered within the second: the clock reaches the next
\* instant only while no call is in flight
Quiet == \A r \in Reqs : req[r].pc \in {"idle", "done"}

NextGateway ==
  \/ \E r \in 1 .. MaxGate, b \in GatewayBodies : GwReceive(r, GoodHeader, "ipA", b)
  \/ \E r \in Reqs : GwResume(r)
  \/ \E r \in Reqs : GwResumeCheck(r)
  \/ \E r \in Reqs, st \in ListStatus : GwListReturn(r, st)
  \/ \E r \in Reqs : GwStored(r)
  \/ \E r \in Reqs : GwSent(r)
  \/ \E r \in Reqs, st \in CreateStatus : InsertReturn(r, st)
  \/ \E r \in Reqs, st \in DeleteStatus : DeleteReturn(r, st)
  \/ \E t \in GatewayTimes : Quiet /\ Advance(t)

SpecGateway == InitGateway /\ [][NextGateway]_vars

\* c is a create call answered with success before the check r was received,
\* for an event of r's calendar that has not been deleted
BookedBefore(c, r) ==
  /\ c \in req[r].prior
  /\ Succeeded(c) /\ req[c].body.action = "create"
  /\ Succeeded(r) /\ req[r].body.action = "check"
  /\ req[c].resp.data.id \in Live(CalendarOf(r))

\* C35: a check answered after a create booked [s, e) on the same calendar
\* offers no slot that overlaps [s, e), unless the booking was cancelled.
C35_NoBookedSlotOffered ==
  \A r \in Reqs : \A c \in Reqs :
    BookedBefore(c, r) =>
      LET ev == events[req[c].resp.data.id]
          slots == req[r].resp.data.slots
      IN \A i \in 1 .. Len(slots) :
           ~(slots[i].start < ev.end /\ ev.start < slots[i].end)

\* a check call answered with success
CheckAnswered(r) == Succeeded(r) /\ req[r].body.action = "check"

\* C36: every successful check response is computed from a busy list the
\* remote calendar was asked for at most CACHE_TTL_SECONDS before the response
\* is sent (here: the list was answered no longer than that before the call
\* was even received).
C36_ListNoOlderThanTtl ==
  \A r \in Reqs :
    CheckAnswered(r) => req[r].at - req[r].listedAt <= DefaultTtlSec * 1000

\* the gateway under calls that change the calendar, with the right key and
\* with a wrong one
MutatingHeaders == {GoodHeader, [authorization |-> Bearer(Wrong), xkey |-> Empty]}

NextMutating ==
  \/ \E r \in 1 .. MaxConc, h \in MutatingHeaders, b \in GatewayBodies :
        GwReceive(r, h, "ipA", b)
  \/ \E r \in Reqs : GwResume(r)
  \/ \E r \in Reqs : GwResumeCheck(r)
  \/ \E r \in Reqs, st \in ListStatus : GwListReturn(r, st)
  \/ \E r \in Reqs : GwStored(r)
  \/ \E r \in Reqs : GwSent(r)
  \/ \E r \in Reqs, st \in CreateStatus : InsertReturn(r, st)
  \/ \E r \in Reqs, st \in DeleteStatus : DeleteReturn(r, st)
  \/ \E t \in GatewayTimes : Quiet /\ Advance(t)

SpecMutating == InitGateway /\ [][NextMutating]_vars

\* the stages at which the gate answers a call itself
GateStages == {"mw_auth", "mw_rate", "auth", "rate", "envelope", "route", "health"}

\* a create or cancel call that the gate let through
MutatingPastGate(r) ==
  /\ Started(r)
  /\ req[r].body.action \in {"create", "cancel"}
  /\ ~(Finished(r) /\ req[r].resp.stage \in GateStages)

\* the keys of the gateway response cache held by the store
GatewayKeys == {k \in DOMAIN store : k[1] = "mcp"}

\* C37: a create or cancel call that passes authentication, rate limiting,
\* envelope validation and routing invokes its handler, the response cache is
\* not looked up for it and its response is not marked fromCache; no key of the
\* response cache is one of a create or a cancel.
C37_MutatingNeverCached ==
  /\ \A r \in Reqs :
       MutatingPastGate(r) =>
         /\ req[r].fx.handler
         /\ \A i \in 1 .. Len(req[r].trail) : req[r].trail[i] # "gw_cache"
         /\ ~req[r].resp.fromCache
  /\ \A k \in GatewayKeys : k[3] \notin {"create", "cancel"}

\* a create was answered with success by its handler while the response cache
\* holds the payload of a check
C37_Witness ==
  /\ GatewayKeys # {}
  /\ \E r \in Reqs : MutatingPastGate(r) /\ Succeeded(r) /\ req[r].body.action = "create"

\* ------------------------------------------------ slots and the time of call
DayChecked == pure.fn = "checkAvailability" /\ pure.step = 1

\* C38: every slot of a check response starts at or after now, whatever the
\* range asked for, also when from lies on a day before today.
C38_NoSlotInThePast ==
  DayChecked => \A i \in DOMAIN pure.out : pure.out[i].start >= pure.now

\* ------------------------------------------- the slot loop, step by step
\* genSlotsBackToBack on one gap, one iteration of its while loop at a time.
\* HeapSlots is the number of slots the heap holds, more than any of the gaps
\* below yields for a positive duration: the push that exceeds it ends the
\* process.
LoopGaps ==
  { Iv(At(Monday, 8, 0), At(Monday, 10, 0)),
    Iv(At(Monday, 9, 10), At(Monday, 10, 0)),
    Iv(At(Monday, 9, 0), At(Monday, 9, 20)) }

LoopDurations == {-30, -7, 0, 30, 45, 60}

InitLoop ==
  \E g \in LoopGaps, d \in LoopDurations, n \in SlotNows :
    InitPure([fn |-> "slotLoop", pc |-> "align", gap |-> g, d |-> d, now |-> n,
              start |-> g.start, pushed |-> 0])

\* the lines before the while loop: the start of the gap, moved to now for a
\* gap of today, then aligned. With step 0 the remainder is NaN and
\* dt.plus({ minutes: NaN }) either throws or gives an invalid DateTime, which
\* fails the loop condition.
LoopAlign ==
  /\ pure.fn = "slotLoop" /\ pure.pc = "align"
  /\ LET g == pure.gap
         from == IF hasSameDay(pure.now, g.start) /\ g.start < pure.now
                   THEN pure.now ELSE g.start
     IN IF pure.d = 0
          THEN \E o \in {"threw", "returned"} : pure' = [pure EXCEPT !.pc = o]
          ELSE pure' = [pure EXCEPT !.pc = "loop", !.start = ceilToStep(from, pure.d)]
  /\ UNCHANGED <<cfg, now, buckets, rateWindows, store, req, events, inserts>>

\* one evaluation of `start.plus({ minutes: step }) <= g.end` and, when it
\* holds, one pass through the body
LoopIterate ==
  /\ pure.fn = "slotLoop" /\ pure.pc = "loop"
  /\ LET end == pure.start + pure.d * MinuteMs
     IN IF end <= pure.gap.end
          THEN IF pure.pushed = HeapSlots
                 THEN pure' = [pure EXCEPT !.pc = "aborted"]
                 ELSE pure' = [pure EXCEPT !.start = end, !.pushed = @ + 1]
          ELSE pure' = [pure EXCEPT !.pc = "returned"]
  /\ UNCHANGED <<cfg, now, buckets, rateWindows, store, req, events, inserts>>

NextLoop == LoopAlign \/ LoopIterate

\* the event loop runs the synchronous code to its end
SpecLoop == InitLoop /\ [][NextLoop]_vars /\ WF_vars(NextLoop)

\* C39: for every numeric duration, zero and negative ones included, the slot
\* loop of a gap exits: the generation returns its slots or fails with an error.
C39_SlotLoopExits ==
  <>(pure.fn = "slotLoop" /\ pure.pc \in {"returned", "threw"})

====
